---- MODULE Spec2Model ----
(***************************************************************************)
(* A model of the speculative-parsing core of the TypeScript plugin for    *)
(* acorn (src/src/index.ts): the tokenizer mode switch, the lookahead      *)
(* snapshots (getCurLookaheadState / cloneCurLookaheadState /              *)
(* setLookaheadState), tryParse, tsLookAhead, tsTryParse, and the          *)
(* disambiguation points parseMaybeAssign and parseSubscript.              *)
(*                                                                         *)
(* The parser object `this` is the record held by the variable `parser`.   *)
(* JavaScript arrays are objects with identity: the record holds the       *)
(* reference `context` (an index into `heap`), and `heap` holds the        *)
(* contents, so that `this.context.push(..)` (in place) and                *)
(* `this.context = ..` (rebinding) are different things, as in the code.   *)
(***************************************************************************)
EXTENDS Integers, Sequences, FiniteSets, TLC

\* ------------------------------------------------------------------ bounds
\* Longest input, in characters, of the speculation machine (Spec).
MaxLen == 2
\* Deepest nesting of open speculative operations.
MaxDepth == 1
\* Most speculative operations begun in one run.
MaxOps == 1
\* Longest input, in characters, of the tokenizer alone (SpecTokens).
MaxTokLen == 3
\* Longest input of the expression parser (SpecExpr), after its first two
\* characters.
MaxExprLen == 6
\* Most modifiers written in front of one class member (SpecModifiers).
MaxModifiers == 3
\* Most elements of a tuple type (SpecTupleType).
MaxElements == 3
\* Tokens of a type-parameter or type-argument list after its `<`.
MaxListLen == 4
\* Most scopes open above the top-level scope (SpecScopes).
MaxScopes == 3
\* Most tokens one lookahead reads (SpecLookahead).
MaxPeek == 2

\* Tokens after a `{` in a type position.
MaxHead == 5

\* Calls that are running at a time, below parseStatement.
MaxCalls == 8

\* --------------------------------------------------------------- alphabet
\* One character per lexical class the tokenizer distinguishes here: an
\* identifier character, the angle brackets, the parentheses (whose tokens
\* push and pop lexical contexts), the slash (regular expression or
\* division, by exprAllowed) and the line break (line tracking).
Chars == {"a", "<", ">", "(", ")", "/", "\n"}

\* With the braces, whose context depends on the token before them.
AllChars == Chars \cup {"{", "}"}

\* `undefined` as a lexical context; NoValue is a token without a value.
Undefined == "undefined"

NoValue == <<>>

RECURSIVE SeqsUpTo(_, _)
SeqsUpTo(S, n) ==
  IF n = 0 THEN {<<>>}
  ELSE LET shorter == SeqsUpTo(S, n - 1)
       IN shorter \cup {Append(s, c) : s \in {t \in shorter : Len(t) = n - 1}, c \in S}

Inputs == SeqsUpTo(Chars, MaxLen)

TokInputs == SeqsUpTo(AllChars, MaxTokLen)

\* The characters that meet an angle bracket in the operators `<<`, `>>`,
\* `>>>`, `<=`, `>=`, `=>`, with an identifier and a parenthesis.
TypeChars == {"a", "<", ">", "=", "("}

TypeInputs == SeqsUpTo(TypeChars, MaxTokLen)

\* ------------------------------------------------------- the parser object
charAt(m, i) == IF i >= 0 /\ i < Len(m.input) THEN m.input[i + 1] ELSE ""

\* The modifier keywords a class member can carry, each one symbol of the
\* input, as "a" is one identifier.
ModifierWords ==
  {"public", "private", "static", "readonly", "override", "abstract",
   "declare", "accessor", "out"}

isIdentifierStart(code) == code = "a" \/ code \in ModifierWords

isIdentifierChar(code) == code = "a" \/ code \in ModifierWords

isNewLine(code) == code = "\n"

curPosition(m) == [line |-> m.curLine, column |-> m.pos - m.lineStart]

\* this.context is a reference; its entries live in the heap.
contextOf(m) == m.heap[m.context]

curContext(m) ==
  LET c == contextOf(m) IN IF Len(c) = 0 THEN Undefined ELSE c[Len(c)]

contextPush(m, tag) == [m EXCEPT !.heap[m.context] = Append(@, tag)]

contextPop(m) ==
  [m EXCEPT !.heap[m.context] = IF Len(@) = 0 THEN @ ELSE SubSeq(@, 1, Len(@) - 1)]

\* A fresh array object holding `elems`; `context` is rebound to it.
contextAssignNew(m, elems) ==
  [m EXCEPT !.heap = Append(@, elems), !.context = Len(m.heap) + 1]

\* An exception in flight out of the operator that produced the record:
\* "" (none), "SyntaxError" (raise), or "RangeError"/"Error" (not a parse error).
raiseAt(m, kind) == [m EXCEPT !.raised = kind]

\* Token-type properties of the base grammar engine.
beforeExpr(type) ==
  type \in {"relational", "bitShift", "slash", "parenL", "braceL", "jsxText",
            "assign", "equality", "eq", "arrow"}

startsExpr(type) == type \in {"name", "parenL", "braceL", "regexp", "jsxTagStart"}

isExpr(ctx) == ctx \in {"p_expr", "b_expr", "b_tmpl", "tc_expr"}

preserveSpace(ctx) == ctx = "tc_expr"

hasLineBreakBetween(m, from, to) ==
  \E i \in from .. (to - 1) : isNewLine(charAt(m, i))

\* ------------------------------------------------------ context bookkeeping
braceIsBlock(m, prevType) ==
  LET parent == curContext(m) IN
  IF prevType = "name" /\ m.exprAllowed
    THEN hasLineBreakBetween(m, m.lastTokEnd, m.start)
  ELSE IF prevType \in {"eof", "parenR"} THEN TRUE
  ELSE IF prevType = "braceL" THEN parent = "b_stat"
  ELSE IF prevType = "name" THEN FALSE
  ELSE ~m.exprAllowed

\* The base engine's per-token context update, reached through
\* super.updateContext(prevType): the update of the token type just read.
superUpdateContext(m, prevType) ==
  CASE m.type = "parenL" ->
         [contextPush(m, "p_expr") EXCEPT !.exprAllowed = TRUE]
    [] m.type = "braceL" ->
         [contextPush(m, IF braceIsBlock(m, prevType) THEN "b_stat" ELSE "b_expr")
            EXCEPT !.exprAllowed = TRUE]
    [] m.type \in {"parenR", "braceR"} ->
         IF Len(contextOf(m)) = 1 THEN [m EXCEPT !.exprAllowed = TRUE]
         ELSE LET out == curContext(m)
              IN [contextPop(m) EXCEPT !.exprAllowed = ~isExpr(out)]
    [] m.type = "name" -> [m EXCEPT !.exprAllowed = FALSE]
    [] m.type = "jsxTagStart" ->
         [contextPush(contextPush(m, "tc_expr"), "tc_oTag") EXCEPT !.exprAllowed = FALSE]
    [] m.type = "jsxTagEnd" ->
         LET out == curContext(m)
             m1 == contextPop(m)
         IN IF (out = "tc_oTag" /\ prevType = "slash") \/ out = "tc_cTag"
              THEN LET m2 == contextPop(m1)
                   IN [m2 EXCEPT !.exprAllowed = (curContext(m2) = "tc_expr")]
              ELSE [m1 EXCEPT !.exprAllowed = TRUE]
    [] OTHER -> [m EXCEPT !.exprAllowed = beforeExpr(m.type)]

updateContext(m, prevType) ==
  IF m.type = "braceL" THEN
    LET cur == curContext(m)
        m1 == IF cur = "tc_oTag" THEN contextPush(m, "b_expr")
              ELSE IF cur = "tc_expr" THEN contextPush(m, "b_tmpl")
              ELSE superUpdateContext(m, prevType)
    IN [m1 EXCEPT !.exprAllowed = TRUE]
  ELSE IF m.type = "slash" /\ prevType = "jsxTagStart" THEN
    \* this.context.length -= 2: a negative length is a RangeError
    IF Len(contextOf(m)) < 2 THEN raiseAt(m, "RangeError")
    ELSE [contextPush(contextPop(contextPop(m)), "tc_cTag") EXCEPT !.exprAllowed = FALSE]
  ELSE superUpdateContext(m, prevType)

\* (preValue and preToken, which finishToken also sets, are read nowhere in
\* the class and are left out.)
finishToken(m, type, val) ==
  LET m1 == [m EXCEPT !.end = m.pos, !.endLoc = curPosition(m),
                      !.type = type, !.value = val]
  IN IF ~m.isLookahead THEN updateContext(m1, m.type) ELSE m1

finishOp(m, type, size) ==
  LET str == SubSeq(m.input, m.pos + 1, m.pos + size)
  IN finishToken([m EXCEPT !.pos = m.pos + size], type, str)

\* ---------------------------------------------------------------- tokenizer
skipSpace(m) ==
  LET RECURSIVE skip(_)
      skip(x) ==
        IF isNewLine(charAt(x, x.pos))
          THEN skip([x EXCEPT !.pos = x.pos + 1, !.curLine = x.curLine + 1,
                              !.lineStart = x.pos + 1])
        ELSE IF charAt(x, x.pos) = " " THEN skip([x EXCEPT !.pos = x.pos + 1])
        ELSE x
  IN skip(m)

\* readWord1 reads the identifier characters and resets containsEsc.
readWord(m) ==
  LET RECURSIVE wordEnd(_)
      wordEnd(i) == IF isIdentifierChar(charAt(m, i)) THEN wordEnd(i + 1) ELSE i
      e == wordEnd(m.pos)
  IN finishToken([m EXCEPT !.pos = e, !.containsEsc = FALSE], "name",
                 SubSeq(m.input, m.pos + 1, e))

\* `<` and `>` in the base engine: `<<`, `>>`, `>>>` are one shift token
\* (an assignment operator with `=` behind them), `<=` and `>=` one
\* relational token.
readToken_lt_gt(m, code) ==
  LET op(next, size) ==
        IF next = code
          THEN IF charAt(m, m.pos + size) = "="
                 THEN [type |-> "assign", size |-> size + 1]
                 ELSE [type |-> "bitShift", size |-> size]
          ELSE [type |-> "relational", size |-> IF next = "=" THEN 2 ELSE 1]
      finish(t) == finishOp(m, t.type, t.size)
  IN finish(op(charAt(m, m.pos + 1),
               IF code = ">" /\ charAt(m, m.pos + 2) = ">" THEN 3 ELSE 2))

\* `=`: `==`, `===`, `=>` or the assignment.
readToken_eq_excl(m, code) ==
  LET next == charAt(m, m.pos + 1)
  IN IF next = "="
       THEN finishOp(m, "equality", IF charAt(m, m.pos + 2) = "=" THEN 3 ELSE 2)
     ELSE IF code = "=" /\ next = ">"
       THEN finishToken([m EXCEPT !.pos = m.pos + 2], "arrow", NoValue)
     ELSE finishOp(m, "eq", 1)

\* `/`: a regular expression where an expression may start, else division.
readToken_slash(m) ==
  IF m.exprAllowed THEN
    LET RECURSIVE bodyEnd(_)
        bodyEnd(i) ==
          IF i >= Len(m.input) \/ isNewLine(charAt(m, i)) THEN -i - 1
          ELSE IF charAt(m, i) = "/" THEN i
          ELSE bodyEnd(i + 1)
        RECURSIVE flagsEnd(_)
        flagsEnd(i) == IF isIdentifierChar(charAt(m, i)) THEN flagsEnd(i + 1) ELSE i
        e == bodyEnd(m.pos + 1)
    IN IF e < 0
         THEN raiseAt([m EXCEPT !.pos = -e - 1], "SyntaxError")
         ELSE finishToken([m EXCEPT !.pos = flagsEnd(e + 1)], "regexp",
                          SubSeq(m.input, m.pos + 1, flagsEnd(e + 1)))
  ELSE finishOp(m, "slash", 1)

superGetTokenFromCode(m, code) ==
  CASE code = "(" -> finishToken([m EXCEPT !.pos = m.pos + 1], "parenL", NoValue)
    [] code = ")" -> finishToken([m EXCEPT !.pos = m.pos + 1], "parenR", NoValue)
    [] code = "{" -> finishToken([m EXCEPT !.pos = m.pos + 1], "braceL", NoValue)
    [] code = "}" -> finishToken([m EXCEPT !.pos = m.pos + 1], "braceR", NoValue)
    [] code = "/" -> readToken_slash(m)
    [] code \in {"<", ">"} -> readToken_lt_gt(m, code)
    [] code = "=" -> readToken_eq_excl(m, code)
    [] OTHER -> raiseAt(m, "SyntaxError")

\* The base engine's reading of every character, angle brackets included.
getTokenFromCodeInTypeMerging(m, code) == superGetTokenFromCode(m, code)

getTokenFromCodeInType(m, code) ==
  IF code = ">" THEN finishOp(m, "relational", 1)
  ELSE IF code = "<" THEN finishOp(m, "relational", 1)
  ELSE superGetTokenFromCode(m, code)

getTokenFromCode(m, code) ==
  IF m.inType THEN getTokenFromCodeInType(m, code)
  ELSE superGetTokenFromCode(m, code)

superReadToken(m, code) ==
  IF isIdentifierStart(code) THEN readWord(m) ELSE getTokenFromCode(m, code)

\* Tag and attribute names inside a JSX tag.
jsx_readWord(m) ==
  LET RECURSIVE wordEnd(_)
      wordEnd(i) == IF isIdentifierChar(charAt(m, i)) THEN wordEnd(i + 1) ELSE i
      e == wordEnd(m.pos)
  IN finishToken([m EXCEPT !.pos = e], "jsxName", SubSeq(m.input, m.pos + 1, e))

\* JSX text between tags: up to the next `<` or `{`.
jsx_readToken(m) ==
  LET RECURSIVE scan(_)
      scan(x) ==
        LET ch == charAt(x, x.pos) IN
        IF x.pos >= Len(x.input) THEN raiseAt(x, "SyntaxError")
        ELSE IF ch \in {"<", "{"} THEN
          IF x.pos = x.start THEN
            IF ch = "<" /\ x.exprAllowed
              THEN finishToken([x EXCEPT !.pos = x.pos + 1], "jsxTagStart", NoValue)
              ELSE getTokenFromCode(x, ch)
          ELSE finishToken(x, "jsxText", SubSeq(x.input, x.start + 1, x.pos))
        ELSE IF ch \in {">", "}"} THEN raiseAt(x, "SyntaxError")
        ELSE IF isNewLine(ch)
          THEN scan([x EXCEPT !.pos = x.pos + 1, !.curLine = x.curLine + 1,
                              !.lineStart = x.pos + 1])
        ELSE scan([x EXCEPT !.pos = x.pos + 1])
  IN scan(m)

readToken(m, code) ==
  IF ~m.inType THEN
    LET context == curContext(m) IN
    IF context = "tc_expr" THEN jsx_readToken(m)
    ELSE IF context \in {"tc_oTag", "tc_cTag"} /\ isIdentifierStart(code)
      THEN jsx_readWord(m)
    ELSE IF context \in {"tc_oTag", "tc_cTag"} /\ code = ">"
      THEN finishToken([m EXCEPT !.pos = m.pos + 1], "jsxTagEnd", NoValue)
    ELSE IF code = "<" /\ m.exprAllowed /\ charAt(m, m.pos + 1) # "!"
      THEN finishToken([m EXCEPT !.pos = m.pos + 1], "jsxTagStart", NoValue)
    ELSE superReadToken(m, code)
  ELSE superReadToken(m, code)

nextToken(m) ==
  LET cur == curContext(m)
      m1 == IF cur = Undefined \/ ~preserveSpace(cur) THEN skipSpace(m) ELSE m
      m2 == [m1 EXCEPT !.start = m1.pos, !.startLoc = curPosition(m1)]
  IN IF m2.pos >= Len(m2.input) THEN finishToken(m2, "eof", NoValue)
     ELSE readToken(m2, charAt(m2, m2.pos))

\* next(): the current token becomes the previous one, the next is read.
next(m) ==
  nextToken([m EXCEPT !.lastTokEnd = m.end, !.lastTokStart = m.start,
                      !.lastTokEndLoc = m.endLoc, !.lastTokStartLoc = m.startLoc])

\* The parser as constructed on `input`, before the first token is read.
NewParser(input) ==
  [input |-> input, pos |-> 0, type |-> "eof", value |-> NoValue,
   start |-> 0, end |-> 0,
   startLoc |-> [line |-> 1, column |-> 0], endLoc |-> [line |-> 1, column |-> 0],
   lastTokStart |-> 0, lastTokEnd |-> 0,
   lastTokStartLoc |-> [line |-> 1, column |-> 0],
   lastTokEndLoc |-> [line |-> 1, column |-> 0],
   curLine |-> 1, lineStart |-> 0, containsEsc |-> FALSE,
   context |-> 1, heap |-> << <<"b_stat">> >>, exprAllowed |-> TRUE,
   inType |-> FALSE, isLookahead |-> FALSE, raised |-> "", log |-> <<>>]

\* ---------------------------------------------------------------- snapshots
\* The fields of a LookaheadState. curPosition, which the code also copies,
\* is a method of the parser and never changes; it is left out.
getCurLookaheadState(m) ==
  [endLoc |-> m.endLoc, lastTokEnd |-> m.lastTokEnd, lastTokStart |-> m.lastTokStart,
   lastTokStartLoc |-> m.lastTokStartLoc, pos |-> m.pos, value |-> m.value,
   type |-> m.type, start |-> m.start, end |-> m.end, context |-> m.context,
   startLoc |-> m.startLoc, lastTokEndLoc |-> m.lastTokEndLoc,
   curLine |-> m.curLine, lineStart |-> m.lineStart, containsEsc |-> m.containsEsc]

\* A snapshot that shares the context array instead of copying it.
cloneSharingContext(m) == [m |-> m, state |-> getCurLookaheadState(m)]

\* cloneCurLookaheadState: as getCurLookaheadState, but context.slice() is a
\* new array; `m` is the parser with that array allocated.
cloneCurLookaheadState(m) ==
  [m |-> [m EXCEPT !.heap = Append(@, contextOf(m))],
   state |-> [getCurLookaheadState(m) EXCEPT !.context = Len(m.heap) + 1]]

\* A restore that forgets the context.
setLookaheadStateKeepContext(m, state) ==
  [m EXCEPT !.pos = state.pos, !.value = state.value, !.endLoc = state.endLoc,
            !.lastTokEnd = state.lastTokEnd, !.lastTokStart = state.lastTokStart,
            !.lastTokStartLoc = state.lastTokStartLoc, !.type = state.type,
            !.start = state.start, !.end = state.end,
            !.startLoc = state.startLoc, !.lastTokEndLoc = state.lastTokEndLoc,
            !.curLine = state.curLine, !.lineStart = state.lineStart,
            !.containsEsc = state.containsEsc]

setLookaheadState(m, state) ==
  [m EXCEPT !.pos = state.pos, !.value = state.value, !.endLoc = state.endLoc,
            !.lastTokEnd = state.lastTokEnd, !.lastTokStart = state.lastTokStart,
            !.lastTokStartLoc = state.lastTokStartLoc, !.type = state.type,
            !.start = state.start, !.end = state.end, !.context = state.context,
            !.startLoc = state.startLoc, !.lastTokEndLoc = state.lastTokEndLoc,
            !.curLine = state.curLine, !.lineStart = state.lineStart,
            !.containsEsc = state.containsEsc]

\* compareLookaheadState: every key identical (===); arrays by reference.
compareLookaheadState(state, state2) == state = state2

\* What a snapshot is meant to preserve, by value: the cursor, the current
\* and previous token, the line tracking, the escape flag and the entries
\* of the context stack.
Cursor(m) ==
  [pos |-> m.pos, type |-> m.type, value |-> m.value, start |-> m.start,
   end |-> m.end, startLoc |-> m.startLoc, endLoc |-> m.endLoc,
   lastTokStart |-> m.lastTokStart, lastTokEnd |-> m.lastTokEnd,
   lastTokStartLoc |-> m.lastTokStartLoc, lastTokEndLoc |-> m.lastTokEndLoc,
   curLine |-> m.curLine, lineStart |-> m.lineStart,
   containsEsc |-> m.containsEsc, context |-> contextOf(m)]

Token(m) == [type |-> m.type, value |-> m.value, start |-> m.start, end |-> m.end]

\* Everything the tokenizer reads when it lexes the next token, by value.
View(m) ==
  [cursor |-> Cursor(m), exprAllowed |-> m.exprAllowed, inType |-> m.inType,
   isLookahead |-> m.isLookahead]

\* A parser on `input` in the state a view describes.
ParserAt(input, v) ==
  [setLookaheadState(NewParser(input), [v.cursor EXCEPT !.context = 1])
     EXCEPT !.heap = <<v.cursor.context>>, !.exprAllowed = v.exprAllowed,
            !.inType = v.inType, !.isLookahead = v.isLookahead]

\* --------------------------------------------------------------- exceptions
\* A thrown value: a SyntaxError (raise, unexpected), the abortSignal object
\* of one tryParse invocation (target: the depth of its frame, node: the
\* argument of abort), or another error (Error: a failed assert or nonNull;
\* RangeError: a negative array length).
NoError == [kind |-> "null", at |-> 0, target |-> 0, node |-> "null"]

SyntaxErrorAt(m) == [kind |-> "SyntaxError", at |-> m.start, target |-> 0, node |-> "null"]

OtherErrorAt(m, kind) == [kind |-> kind, at |-> m.start, target |-> 0, node |-> "null"]

AbortSignal(k, node) == [kind |-> "abort", at |-> 0, target |-> k, node |-> node]

ThrownBy(m) ==
  IF m.raised = "SyntaxError" THEN SyntaxErrorAt(m) ELSE OtherErrorAt(m, m.raised)

\* ------------------------------------------------------------------ tryParse
\* `null` where a LookaheadState is expected.
NullState == [getCurLookaheadState(NewParser(<<>>)) EXCEPT !.pos = -1, !.context = 0]

\* The return statement of the try block.
tryParseReturn(node) ==
  [node |-> node, error |-> NoError, thrown |-> FALSE, aborted |-> FALSE,
   failState |-> NullState]

\* A catch block that tests the error before it restores.
tryParseCatchTestFirst(m, oldState, error, self) ==
  LET failState == getCurLookaheadState(m)
  IN IF error.kind = "SyntaxError" THEN
       [m |-> setLookaheadState(m, oldState), caught |-> TRUE,
        result |-> [node |-> "null", error |-> error, thrown |-> TRUE,
                    aborted |-> FALSE, failState |-> failState]]
     ELSE IF error = AbortSignal(self, error.node) THEN
       [m |-> setLookaheadState(m, oldState), caught |-> TRUE,
        result |-> [node |-> error.node, error |-> NoError, thrown |-> FALSE,
                    aborted |-> TRUE, failState |-> failState]]
     ELSE [m |-> m, caught |-> FALSE, result |-> tryParseReturn("null")]

\* A catch block that reports an abort as a thrown error.
tryParseCatchAbortThrown(m, oldState, error, self) ==
  LET failState == getCurLookaheadState(m)
      restored == setLookaheadState(m, oldState)
  IN IF error.kind = "SyntaxError" \/ error = AbortSignal(self, error.node) THEN
       [m |-> restored, caught |-> TRUE,
        result |-> [node |-> "null", error |-> error, thrown |-> TRUE,
                    aborted |-> FALSE, failState |-> failState]]
     ELSE [m |-> restored, caught |-> FALSE, result |-> tryParseReturn("null")]

\* The catch block of tryParse: `self` identifies this invocation's
\* abortSignal. caught = FALSE is `throw error`.
tryParseCatch(m, oldState, error, self) ==
  LET failState == getCurLookaheadState(m)
      restored == setLookaheadState(m, oldState)
  IN IF error.kind = "SyntaxError" THEN
       [m |-> restored, caught |-> TRUE,
        result |-> [node |-> "null", error |-> error, thrown |-> TRUE,
                    aborted |-> FALSE, failState |-> failState]]
     ELSE IF error = AbortSignal(self, error.node) THEN
       [m |-> restored, caught |-> TRUE,
        result |-> [node |-> error.node, error |-> NoError, thrown |-> FALSE,
                    aborted |-> TRUE, failState |-> failState]]
     ELSE [m |-> restored, caught |-> FALSE, result |-> tryParseReturn("null")]

\* tsLookAhead after f returned.
tsLookAheadReturn(m, state, res) == [m |-> setLookaheadState(m, state), out |-> res]

\* tsTryParse after f returned.
tsTryParseReturn(m, state, result) ==
  IF result # "undefined" /\ result # "false"
    THEN [m |-> m, out |-> result]
    ELSE [m |-> setLookaheadState(m, state), out |-> "undefined"]

\* ------------------------------------------------------ the parser at work
\* parser: `this`.  stack: the open speculative calls, outermost first.
\* exc: the exception in flight, NoError if none.  last: the speculative
\* call that has just finished (op = "none" after any other step).
\* ops: the speculative calls begun so far.  pma: the activation of
\* parseMaybeAssign, if one is running (SpecPMA).  parsed: the outcome of
\* parsing the whole input (SpecExpr).
VARIABLES parser, stack, exc, last, ops, pma, parsed

vars == <<parser, stack, exc, last, ops, pma, parsed>>

\* A frame of `stack`: kind is the function; state its saved LookaheadState
\* (oldState of tryParse, state of tsLookAhead and tsTryParse); entry is the
\* parser as it was, by value, when the call began.
Frame(kind, state, m) == [kind |-> kind, state |-> state, entry |-> View(m)]

NoResult == tryParseReturn("none")

\* `undefined` where a node is expected.
NoNode == <<>>

\* Nothing parsed yet.
NotParsed == [done |-> FALSE, raised |-> "", node |-> NoNode, log |-> <<>>]

Idle ==
  [op |-> "none", how |-> "none", error |-> NoError, ret |-> "none",
   result |-> NoResult, out |-> "none",
   entry |-> View(NewParser(<<>>)), before |-> View(NewParser(<<>>))]

\* The record of a finished call: how it ended ("return", "catch",
\* "rethrow"), the exception and the value involved, what it gave its
\* caller, and the parser by value on entry and just before it ended.
Finished(frame, how, error, ret, result, out, before) ==
  [op |-> frame.kind, how |-> how, error |-> error, ret |-> ret,
   result |-> result, out |-> out, entry |-> frame.entry, before |-> View(before)]

Commit(p, st, e, la) ==
  /\ parser' = p
  /\ stack' = st
  /\ last' = la
  /\ exc' = e

\* No parseMaybeAssign is running. stage: where the activation stands
\* ("jsx", "arrow", "typeCast": inside that tryParse; "plain": inside the
\* unguarded parseMaybeAssignOrigin; "done": it has returned or thrown).
\* state, jsx, arrow, typeCast: its local variables (NoResult: undefined).
\* attempts: the tryParse calls it has made, in order. outcome: how it ended.
NoPMA ==
  [stage |-> "idle", state |-> NullState, jsx |-> NoResult, arrow |-> NoResult,
   typeCast |-> NoResult, attempts |-> <<>>,
   outcome |-> [kind |-> "none", from |-> "none", node |-> "none", error |-> NoError]]

\* Values a speculated function may return: tryParse hands fn's node on,
\* tsLookAhead and tsTryParse test the result for truthiness.
RetVals(kind) ==
  IF kind = "tryParse" THEN {"node", "undefined"} ELSE {"node", "undefined", "false"}

\* The first token is read before any parsing function runs.
Started(m) == m.pos > 0 \/ Len(m.input) = 0

Init ==
  /\ \E input \in Inputs : parser = NewParser(input)
  /\ stack = <<>>
  /\ exc = NoError
  /\ last = Idle
  /\ ops = 0
  /\ pma = NoPMA
  /\ parsed = NotParsed

\* The exception e reaches the innermost open call: the catch block of
\* tryParse; tsLookAhead and tsTryParse have no handler and are left.
Propagate(e) ==
  LET f == stack[Len(stack)]
      rest == SubSeq(stack, 1, Len(stack) - 1)
  IN IF f.kind = "tryParse" THEN
       LET c == tryParseCatch(parser, f.state, e, Len(stack))
       IN Commit(c.m, rest, IF c.caught THEN NoError ELSE e,
                 Finished(f, IF c.caught THEN "catch" ELSE "rethrow", e, "none",
                          c.result, "none", parser))
     ELSE Commit(parser, rest, e,
                 Finished(f, "rethrow", e, "none", NoResult, "none", parser))

\* next(): whichever function is running consumes the current token. An
\* error of the tokenizer is a SyntaxError thrown from there.
Advance ==
  /\ exc = NoError
  /\ parser.type # "eof" \/ ~Started(parser)
  /\ LET m == next(parser)
     IN Commit([m EXCEPT !.raised = ""], stack,
               IF m.raised = "" THEN NoError ELSE ThrownBy(m), Idle)
  /\ UNCHANGED <<ops, pma, parsed>>

CanBegin ==
  /\ exc = NoError
  /\ Started(parser)
  /\ Len(stack) < MaxDepth
  /\ ops < MaxOps

\* tryParse(fn) with the default oldState: up to the call of fn.
BeginTryParse ==
  /\ CanBegin
  /\ LET c == cloneCurLookaheadState(parser)
     IN Commit(c.m, Append(stack, Frame("tryParse", c.state, parser)), NoError, Idle)
  /\ ops' = ops + 1
  /\ UNCHANGED <<pma, parsed>>

\* tsLookAhead(f): up to the call of f.
BeginTsLookAhead ==
  /\ CanBegin
  /\ Commit(parser,
            Append(stack, Frame("tsLookAhead", getCurLookaheadState(parser), parser)),
            NoError, Idle)
  /\ ops' = ops + 1
  /\ UNCHANGED <<pma, parsed>>

\* tsTryParse(f): up to the call of f.
BeginTsTryParse ==
  /\ CanBegin
  /\ Commit(parser,
            Append(stack, Frame("tsTryParse", getCurLookaheadState(parser), parser)),
            NoError, Idle)
  /\ ops' = ops + 1
  /\ UNCHANGED <<pma, parsed>>

\* The function of the innermost open call returns v: the rest of that call.
Return(v) ==
  /\ exc = NoError
  /\ Len(stack) > 0
  /\ v \in RetVals(stack[Len(stack)].kind)
  /\ LET f == stack[Len(stack)]
         rest == SubSeq(stack, 1, Len(stack) - 1)
     IN CASE f.kind = "tryParse" ->
               Commit(parser, rest, NoError,
                      Finished(f, "return", NoError, v, tryParseReturn(v), "none", parser))
          [] f.kind = "tsLookAhead" ->
               LET r == tsLookAheadReturn(parser, f.state, v)
               IN Commit(r.m, rest, NoError,
                         Finished(f, "return", NoError, v, NoResult, r.out, parser))
          [] f.kind = "tsTryParse" ->
               LET r == tsTryParseReturn(parser, f.state, v)
               IN Commit(r.m, rest, NoError,
                         Finished(f, "return", NoError, v, NoResult, r.out, parser))
  /\ UNCHANGED <<ops, pma, parsed>>

\* A parsing function inside a speculative call raises a parse error
\* (kind = "SyntaxError") or fails an assertion (kind = "Error").
Raise(kind) ==
  /\ exc = NoError
  /\ Len(stack) > 0
  /\ Propagate(IF kind = "SyntaxError" THEN SyntaxErrorAt(parser)
               ELSE OtherErrorAt(parser, kind))
  /\ UNCHANGED <<ops, pma, parsed>>

\* The function given to the tryParse at depth k calls abort(node).
Abort(k, node) ==
  /\ exc = NoError
  /\ k \in 1 .. Len(stack)
  /\ stack[k].kind = "tryParse"
  /\ Propagate(AbortSignal(k, node))
  /\ UNCHANGED <<ops, pma, parsed>>

\* An exception in flight (rethrown, or thrown by the tokenizer) reaches
\* the next enclosing call.
Unwind ==
  /\ exc # NoError
  /\ Len(stack) > 0
  /\ Propagate(exc)
  /\ UNCHANGED <<ops, pma, parsed>>

Next ==
  \/ Advance
  \/ BeginTryParse
  \/ BeginTsLookAhead
  \/ BeginTsTryParse
  \/ \E v \in {"node", "undefined", "false"} : Return(v)
  \/ \E kind \in {"SyntaxError", "Error"} : Raise(kind)
  \/ \E k \in 1 .. MaxDepth, node \in {"null", "partial"} : Abort(k, node)
  \/ Unwind

Spec == Init /\ [][Next]_vars

\* The tokenizer alone: one input read to its end, token after token.
InitTokens ==
  /\ \E input \in TokInputs : parser = NewParser(input)
  /\ stack = <<>>
  /\ exc = NoError
  /\ last = Idle
  /\ ops = 0
  /\ pma = NoPMA
  /\ parsed = NotParsed

SpecTokens == InitTokens /\ [][Advance]_vars

\* The tokenizer under tsInType: the callback reads tokens with inType set,
\* and the flag is put back when the callback returns or throws.
InitInType ==
  /\ \E input \in TypeInputs : parser = NewParser(input)
  /\ stack = <<>>
  /\ exc = NoError
  /\ last = Idle
  /\ ops = 0
  /\ pma = NoPMA
  /\ parsed = NotParsed

\* tsInType(cb), entered: oldInType is kept in the frame.
BeginTsInType ==
  /\ exc = NoError
  /\ Len(stack) < MaxDepth
  /\ Commit([parser EXCEPT !.inType = TRUE],
            Append(stack, Frame("tsInType", NullState, parser)), NoError, Idle)
  /\ UNCHANGED <<ops, pma, parsed>>

\* tsInType(cb), left through `finally`: inType is what it was at entry and
\* an exception of the callback goes on to the caller.
EndTsInType ==
  /\ Len(stack) > 0
  /\ stack[Len(stack)].kind = "tsInType"
  /\ Commit([parser EXCEPT !.inType = stack[Len(stack)].entry.inType],
            SubSeq(stack, 1, Len(stack) - 1), exc, Idle)
  /\ UNCHANGED <<ops, pma, parsed>>

NextInType == Advance \/ BeginTsInType \/ EndTsInType

SpecInType == InitInType /\ [][NextInType]_vars

\* --------------------------------------------------------- parseMaybeAssign
tsMatchLeftRelational(m) == m.type = "relational" /\ m.value = <<"<">>

matchJsx(m, type) == m.type = type

\* A node, as `if (x.node)` tests it.
Truthy(node) == node \notin {"null", "undefined", "none"}

\* The contexts the tag start pushed are popped from the parser's array.
removeJsxContext(m) ==
  LET context == contextOf(m)
      n == Len(context)
      currentContext == IF n >= 1 THEN context[n] ELSE Undefined
      lastCurrentContext == IF n >= 2 THEN context[n - 1] ELSE Undefined
  IN IF currentContext = "tc_oTag" /\ lastCurrentContext = "tc_expr"
       THEN contextPop(contextPop(m))
     ELSE IF currentContext \in {"tc_oTag", "tc_expr"} THEN contextPop(m)
     ELSE m

\* How a stretch of parseMaybeAssign ends: it calls tryParse (call: the
\* parser and the locals as they are when fn starts), it returns a node,
\* or it throws.
pmaCall(m, p, branch, state) ==
  [m |-> m, call |-> TRUE, throw |-> NoError,
   pma |-> [p EXCEPT !.stage = branch, !.state = state,
                     !.attempts = Append(@, branch)]]

pmaReturn(m, p, from, node) ==
  [m |-> m, call |-> FALSE, throw |-> NoError,
   pma |-> [p EXCEPT !.stage = "done",
                     !.outcome = [kind |-> "node", from |-> from, node |-> node,
                                  error |-> NoError]]]

pmaThrow(m, p, from, error) ==
  [m |-> m, call |-> FALSE, throw |-> error,
   pma |-> [p EXCEPT !.stage = "done",
                     !.outcome = [kind |-> "throw", from |-> from, node |-> "none",
                                  error |-> error]]]

\* From the entry to the first call: the JSX tryParse when the token is a
\* tag start or `<`, else parseMaybeAssignOrigin unguarded.
parseMaybeAssignEnter(m, p) ==
  IF matchJsx(m, "jsxTagStart") \/ tsMatchLeftRelational(m) THEN
    LET c == cloneCurLookaheadState(m) IN pmaCall(c.m, p, "jsx", c.state)
  ELSE [m |-> m, call |-> FALSE, throw |-> NoError, pma |-> [p EXCEPT !.stage = "plain"]]

\* A final chain that throws the error of the branch tried last.
parseMaybeAssignFinalLastError(m, p) ==
  IF p.jsx # NoResult /\ Truthy(p.jsx.node)
    THEN pmaReturn(setLookaheadState(m, p.jsx.failState), p, "jsx", p.jsx.node)
  ELSE IF Truthy(p.arrow.node)
    THEN pmaReturn(setLookaheadState(m, p.arrow.failState), p, "arrow", p.arrow.node)
  ELSE IF p.typeCast # NoResult /\ Truthy(p.typeCast.node)
    THEN pmaReturn(setLookaheadState(m, p.typeCast.failState), p, "typeCast",
                   p.typeCast.node)
  ELSE IF p.typeCast # NoResult /\ p.typeCast.thrown
    THEN pmaThrow(m, p, "typeCast", p.typeCast.error)
  ELSE IF p.arrow.thrown THEN pmaThrow(m, p, "arrow", p.arrow.error)
  ELSE IF p.jsx # NoResult /\ p.jsx.thrown THEN pmaThrow(m, p, "jsx", p.jsx.error)
  ELSE pmaThrow(m, p, "none", NoError)

\* The end of parseMaybeAssign, every attempt having failed.
parseMaybeAssignFinal(m, p) ==
  IF p.jsx # NoResult /\ Truthy(p.jsx.node)
    THEN pmaReturn(setLookaheadState(m, p.jsx.failState), p, "jsx", p.jsx.node)
  ELSE IF Truthy(p.arrow.node)
    THEN pmaReturn(setLookaheadState(m, p.arrow.failState), p, "arrow", p.arrow.node)
  ELSE IF p.typeCast # NoResult /\ Truthy(p.typeCast.node)
    THEN pmaReturn(setLookaheadState(m, p.typeCast.failState), p, "typeCast",
                   p.typeCast.node)
  ELSE IF p.jsx # NoResult /\ p.jsx.thrown THEN pmaThrow(m, p, "jsx", p.jsx.error)
  ELSE IF p.arrow.thrown THEN pmaThrow(m, p, "arrow", p.arrow.error)
  ELSE IF p.typeCast # NoResult /\ p.typeCast.thrown
    THEN pmaThrow(m, p, "typeCast", p.typeCast.error)
  ELSE \* throw jsx?.error || arrow.error || typeCast?.error
       pmaThrow(m, p, "none",
                IF p.jsx # NoResult /\ p.jsx.error # NoError THEN p.jsx.error
                ELSE IF p.arrow.error # NoError THEN p.arrow.error
                ELSE IF p.typeCast # NoResult THEN p.typeCast.error ELSE NoError)

\* A parseMaybeAssign that gives up when the JSX attempt has failed.
parseMaybeAssignAfterJsxNoArrow(m, p, jsx) ==
  IF jsx.error = NoError THEN pmaReturn(m, [p EXCEPT !.jsx = jsx], "jsx", jsx.node)
  ELSE pmaThrow(removeJsxContext(m), [p EXCEPT !.jsx = jsx], "jsx", jsx.error)

\* From the return of the JSX tryParse to the arrow tryParse.
parseMaybeAssignAfterJsx(m, p, jsx) ==
  IF jsx.error = NoError THEN pmaReturn(m, [p EXCEPT !.jsx = jsx], "jsx", jsx.node)
  ELSE
    LET m1 == removeJsxContext(m)
        \* `!jsx?.error && !this.tsMatchLeftRelational()` is false here
        c == IF p.state = NullState
                  \/ compareLookaheadState(p.state, getCurLookaheadState(m1))
               THEN cloneCurLookaheadState(m1)
               ELSE [m |-> m1, state |-> p.state]
    IN pmaCall(c.m, [p EXCEPT !.jsx = jsx], "arrow", c.state)

\* From the return of the arrow tryParse to the type-cast tryParse, which
\* is tried when no JSX attempt was made, or to the end.
parseMaybeAssignAfterArrow(m, p, arrow) ==
  LET p1 == [p EXCEPT !.arrow = arrow] IN
  IF arrow.error = NoError /\ ~arrow.aborted THEN pmaReturn(m, p1, "arrow", arrow.node)
  ELSE IF p.jsx = NoResult THEN pmaCall(m, p1, "typeCast", p.state)
  ELSE parseMaybeAssignFinal(m, p1)

\* From the return of the type-cast tryParse to the end.
parseMaybeAssignAfterTypeCast(m, p, typeCast) ==
  LET p1 == [p EXCEPT !.typeCast = typeCast] IN
  IF typeCast.error = NoError THEN pmaReturn(m, p1, "typeCast", typeCast.node)
  ELSE parseMaybeAssignFinal(m, p1)

\* One stretch of parseMaybeAssign takes effect.
PMA_Step(r) ==
  /\ pma' = r.pma
  /\ Commit(r.m,
            IF r.call THEN <<Frame("tryParse", r.pma.state, r.m)>> ELSE <<>>,
            r.throw, Idle)
  /\ UNCHANGED <<ops, parsed>>

\* parseMaybeAssign is called, at the start of an expression.
PMA_Enter ==
  /\ pma.stage = "idle"
  /\ exc = NoError
  /\ stack = <<>>
  /\ Started(parser)
  /\ PMA_Step(parseMaybeAssignEnter(parser, pma))

\* The tryParse it called has ended: parseMaybeAssign goes on to its next
\* call or to its end; an exception tryParse rethrew leaves it.
PMA_Resume ==
  /\ pma.stage \in {"jsx", "arrow", "typeCast"}
  /\ stack = <<>>
  /\ last.op = "tryParse"
  /\ IF last.how = "rethrow"
       THEN PMA_Step(pmaThrow(parser, pma, pma.stage, exc))
       ELSE PMA_Step(CASE pma.stage = "jsx" ->
                            parseMaybeAssignAfterJsx(parser, pma, last.result)
                       [] pma.stage = "arrow" ->
                            parseMaybeAssignAfterArrow(parser, pma, last.result)
                       [] pma.stage = "typeCast" ->
                            parseMaybeAssignAfterTypeCast(parser, pma, last.result))

\* The unguarded parseMaybeAssignOrigin ends: with a node, or with the
\* exception it threw (a tokenizer error already in flight included).
PMA_OriginEnds(how) ==
  /\ pma.stage = "plain"
  /\ IF exc # NoError THEN how = "throw" /\ PMA_Step(pmaThrow(parser, pma, "origin", exc))
     ELSE IF how = "throw"
       THEN PMA_Step(pmaThrow(parser, pma, "origin", SyntaxErrorAt(parser)))
     ELSE PMA_Step(pmaReturn(parser, pma, "origin", "node"))

\* Tokens are consumed before parseMaybeAssign is called, and by the
\* parsing functions it runs.
PMA_Reading ==
  \/ pma.stage \in {"idle", "plain"}
  \/ pma.stage \in {"jsx", "arrow", "typeCast"} /\ Len(stack) > 0

\* Inside a branch: parseMaybeAssignOrigin returns its node or raises; the
\* arrow branch alone can call abort(), without a node.
NextPMA ==
  \/ PMA_Reading /\ Advance
  \/ PMA_Enter
  \/ PMA_Resume
  \/ \E how \in {"node", "throw"} : PMA_OriginEnds(how)
  \/ Return("node")
  \/ \E kind \in {"SyntaxError", "Error"} : Raise(kind)
  \/ pma.stage = "arrow" /\ Abort(1, "null")
  \/ Unwind

SpecPMA == Init /\ [][NextPMA]_vars

\* -------------------------------------------------------------- expressions
\* The expression grammar around parseSubscript, on the alphabet of names,
\* angle brackets and parentheses.  Every parsing function is an operator
\* from the parser it starts on to the parser it ends on and the node it
\* returns; an exception it throws is m.raised, and every function passes
\* on, unchanged, a parser that is already raising.  Nodes are written as
\* flat sequences of strings.  A JSX element, whose parser is not part of
\* this class, raises "Unmodelled", which no handler here catches.
\*
\* The parsing functions are methods: one calls another by name on `this`,
\* which is this(m, name, arguments) below.
ExprChars == {"a", "<", ">", "(", ")"}

\* Inputs begin with a name followed by `<`.
ExprInputs == {<<"a", "<">> \o s : s \in SeqsUpTo(ExprChars, MaxExprLen)}

Node(m, node) == [m |-> m, node |-> node]

ok(m) == m.raised = ""

RECURSIVE this(_, _, _)

\* The parsing decisions recorded as they are made (not program state).
Log(m, entry) == [m EXCEPT !.log = Append(@, entry)]

unexpected(m) == raiseAt(m, "SyntaxError")

expect(m, type) ==
  IF ~ok(m) THEN m ELSE IF m.type = type THEN next(m) ELSE unexpected(m)

tsMatchRightRelational(m) == m.type = "relational" /\ m.value = <<">">>

hasPrecedingLineBreak(m) == hasLineBreakBetween(m, m.lastTokEnd, m.start)

canInsertSemicolon(m) ==
  m.type \in {"eof", "braceR"} \/ hasLineBreakBetween(m, m.lastTokEnd, m.start)

tokenCanStartExpression(type) == startsExpr(type)

\* A reScan_lt that leaves a shift operator whole.
reScan_ltNever(m) == m

\* A token split back: of `<<` the first `<` alone is the token.
reScan_lt(m) ==
  IF m.type = "bitShift"
    THEN finishOp([m EXCEPT !.pos = m.pos - 2], "relational", 1)
    ELSE m

\* parseIdent: any other token than a name is unexpected (parseIdentNode).
parseIdent(m) ==
  IF ~ok(m) THEN Node(m, NoNode)
  ELSE IF m.type # "name" THEN Node(unexpected(m), NoNode)
  ELSE Node(this(m, "next", <<>>), <<"Identifier(">> \o m.value \o <<")">>)

\* A type reference: a name, with type arguments when `<` follows on the
\* same line.
tsParseTypeReference(m) ==
  LET id == this(m, "parseIdent", <<>>) IN
  IF ~ok(id.m) THEN id
  ELSE IF ~hasPrecedingLineBreak(id.m) /\ tsMatchLeftRelational(id.m) THEN
    LET ta == this(id.m, "tsParseTypeArguments", <<>>)
    IN Node(ta.m, <<"TSTypeReference(">> \o id.node \o ta.node \o <<")">>)
  ELSE Node(id.m, <<"TSTypeReference(">> \o id.node \o <<")">>)

\* tsParseTypeParameter: no name of this alphabet is a modifier, `extends`
\* or `=`, so a type parameter is its name.
tsParseTypeParameter(m) ==
  LET name == this(m, "parseIdent", <<>>)
  IN Node(name.m, <<"TSTypeParameter(">> \o name.node \o <<")">>)

\* tsParseDelimitedList("TypeParametersOrArguments", parseElement): the
\* elements up to `>`, separated by commas; parseElement is tsParseType or
\* tsParseTypeParameter.
tsParseDelimitedList(m, parseElement) ==
  IF ~ok(m) THEN [m |-> m, node |-> NoNode, length |-> 0]
  ELSE IF tsMatchRightRelational(m) THEN [m |-> m, node |-> NoNode, length |-> 0]
  ELSE LET t == this(m, parseElement, <<>>) IN
       IF ~ok(t.m) THEN [m |-> t.m, node |-> NoNode, length |-> 0]
       ELSE IF tsMatchRightRelational(t.m) THEN [m |-> t.m, node |-> t.node, length |-> 1]
       ELSE [m |-> this(t.m, "expect", "comma"), node |-> NoNode, length |-> 0]

\* tsParseTypeParameters: `<`, the parameters, `>`; an empty list raises.
tsParseTypeParameters(m) ==
  IF ~ok(m) THEN Node(m, NoNode)
  ELSE
    LET m1 == IF tsMatchLeftRelational(m) \/ matchJsx(m, "jsxTagStart")
                THEN this(m, "next", <<>>) ELSE unexpected(m)
        list == this(m1, "tsParseDelimitedList", "tsParseTypeParameter")
        m2 == this(list.m, "expect", "relational")
    IN IF ~ok(m2) THEN Node(m2, NoNode)
       ELSE IF list.length = 0 THEN Node(raiseAt(m2, "SyntaxError"), NoNode)
       ELSE Node(m2, <<"TSTypeParameterDeclaration(">> \o list.node \o <<")">>)

\* parseBindingList(tt.parenR, true, true) of a signature: the parameter
\* names up to `)`, separated by commas.
parseBindingList(m) ==
  IF ~ok(m) THEN Node(m, NoNode)
  ELSE IF m.type = "parenR" THEN Node(this(m, "next", <<>>), NoNode)
  ELSE LET elt == this(m, "parseIdent", <<>>) IN
       IF ~ok(elt.m) THEN elt
       ELSE IF elt.m.type = "parenR" THEN Node(this(elt.m, "next", <<>>), elt.node)
       ELSE Node(this(elt.m, "expect", "comma"), NoNode)

\* tsParseFunctionOrConstructorType("TSFunctionType"), that is
\* tsFillSignature(tt.arrow, node): type parameters if `<` is the token,
\* `(` parameters `)`, then the `=>` that is required; what follows the
\* arrow is outside this alphabet.
tsParseFunctionOrConstructorType(m) ==
  LET typeParameters == IF tsMatchLeftRelational(m)
                          THEN this(m, "tsParseTypeParameters", <<>>)
                          ELSE Node(m, NoNode)
      parameters == this(this(typeParameters.m, "expect", "parenL"), "parseBindingList", <<>>)
      m1 == this(parameters.m, "expect", "arrow")
  IN Node(IF ok(m1) THEN raiseAt(m1, "Unmodelled") ELSE m1, NoNode)

\* tsIsUnambiguouslyStartOfFunctionType: `(` `)`, or `(` name followed by
\* `:` `,` `?` `=`, or `(` name `)` `=>`.  The tokens it reads stay read.
tsIsUnambiguouslyStartOfFunctionType(m) ==
  LET m1 == this(m, "next", <<>>) IN
  IF ~ok(m1) THEN [m |-> m1, res |-> FALSE]
  ELSE IF m1.type \in {"parenR", "ellipsis"} THEN [m |-> m1, res |-> TRUE]
  ELSE IF m1.type = "name" THEN
    LET m2 == this(m1, "next", <<>>) IN
    IF ~ok(m2) THEN [m |-> m2, res |-> FALSE]
    ELSE IF m2.type \in {"colon", "comma", "question", "eq"} THEN [m |-> m2, res |-> TRUE]
    ELSE IF m2.type = "parenR"
      THEN LET m3 == this(m2, "next", <<>>) IN [m |-> m3, res |-> ok(m3) /\ m3.type = "arrow"]
    ELSE [m |-> m2, res |-> FALSE]
  ELSE [m |-> m1, res |-> FALSE]

\* tsLookAhead(f): the snapshot taken before f is put back when f returns;
\* an exception of f passes through.
tsLookAhead(m, f) ==
  LET state == getCurLookaheadState(m)
      res == this(m, f, <<>>)
  IN IF ~ok(res.m) THEN res
     ELSE LET r == tsLookAheadReturn(res.m, state, res.res)
          IN [m |-> r.m, res |-> r.out]

tsIsStartOfFunctionType(m) ==
  IF tsMatchLeftRelational(m) THEN [m |-> m, res |-> TRUE]
  ELSE IF m.type = "parenL"
    THEN this(m, "tsLookAhead", "tsIsUnambiguouslyStartOfFunctionType")
  ELSE [m |-> m, res |-> FALSE]

tsParseParenthesizedType(m) ==
  LET typeAnnotation == this(this(m, "expect", "parenL"), "tsParseType", <<>>)
  IN Node(this(typeAnnotation.m, "expect", "parenR"),
          <<"TSParenthesizedType(">> \o typeAnnotation.node \o <<")">>)

\* tsParseNonArrayType: `(` is a parenthesized type, a name a type
\* reference, any other token unexpected.
tsParseNonArrayType(m) ==
  IF ~ok(m) THEN Node(m, NoNode)
  ELSE IF m.type = "parenL" THEN this(m, "tsParseParenthesizedType", <<>>)
  ELSE IF m.type = "name" THEN this(m, "tsParseTypeReference", <<>>)
  ELSE Node(unexpected(m), NoNode)

\* tsParseType, which asserts the type mode, and tsParseNonConditionalType:
\* a function type if one starts here, else down to tsParseNonArrayType.
tsParseType(m) ==
  IF ~ok(m) THEN Node(m, NoNode)
  ELSE IF ~m.inType THEN Node(raiseAt(m, "Error"), NoNode)
  ELSE LET start == this(m, "tsIsStartOfFunctionType", <<>>) IN
       IF ~ok(start.m) THEN Node(start.m, NoNode)
       ELSE IF start.res THEN this(start.m, "tsParseFunctionOrConstructorType", <<>>)
       ELSE this(start.m, "tsParseNonArrayType", <<>>)

\* The list is read in type mode (tsInType) on a context stack cut down to
\* its first entry (tsInNoContext); both are put back on every way out.
\* The closing `>` is consumed after that, with exprAllowed false.
tsParseTypeArguments(m) ==
  IF ~ok(m) THEN Node(m, NoNode)
  ELSE
    LET oldInType == m.inType
        oldContext == m.context
        first == IF Len(contextOf(m)) = 0 THEN <<Undefined>> ELSE <<contextOf(m)[1]>>
        m1 == contextAssignNew([m EXCEPT !.inType = TRUE], first)
        list == this(this(m1, "expect", "relational"), "tsParseDelimitedList", "tsParseType")
        m2 == [list.m EXCEPT !.context = oldContext, !.inType = oldInType]
    IN IF ~ok(m2) THEN Node(m2, NoNode)
       ELSE IF list.length = 0 THEN Node(raiseAt(m2, "SyntaxError"), NoNode)
       ELSE Node(this([m2 EXCEPT !.exprAllowed = FALSE], "expect", "relational"),
                 <<"TSTypeParameterInstantiation(">> \o list.node \o <<")">>)

tsParseTypeArgumentsInExpression(m) ==
  LET re == reScan_lt(m) IN
  IF re.type # "relational" THEN [m |-> re, node |-> NoNode]
  ELSE this(re, "tsParseTypeArguments", <<>>)

\* parseExprList(tt.parenR): the arguments up to `)`, separated by commas.
parseExprList(m) ==
  IF ~ok(m) THEN Node(m, NoNode)
  ELSE IF m.type = "parenR" THEN Node(this(m, "next", <<>>), NoNode)
  ELSE LET e == this(m, "parseMaybeAssign", <<>>) IN
       IF ~ok(e.m) THEN e
       ELSE IF e.m.type = "parenR" THEN Node(this(e.m, "next", <<>>), e.node)
       ELSE Node(this(e.m, "expect", "comma"), NoNode)

\* `(` expression `)`; an empty pair of parentheses is no expression.
parseParenAndDistinguishExpression(m) ==
  LET m1 == this(m, "next", <<>>) IN
  IF ~ok(m1) THEN Node(m1, NoNode)
  ELSE IF m1.type = "parenR" THEN
    LET m2 == this(m1, "next", <<>>) IN Node(IF ok(m2) THEN unexpected(m2) ELSE m2, NoNode)
  ELSE LET e == this(m1, "parseMaybeAssign", <<>>) IN
       IF ~ok(e.m) THEN e
       ELSE IF e.m.type = "parenR" THEN Node(this(e.m, "next", <<>>), e.node)
       ELSE Node(this(e.m, "expect", "comma"), NoNode)

parseExprAtom(m) ==
  IF ~ok(m) THEN Node(m, NoNode)
  ELSE IF m.type \in {"jsxTagStart", "jsxText"} THEN Node(raiseAt(m, "Unmodelled"), NoNode)
  ELSE IF m.type = "name" THEN this(m, "parseIdent", <<>>)
  ELSE IF m.type = "parenL" THEN this(m, "parseParenAndDistinguishExpression", <<>>)
  ELSE Node(unexpected(m), NoNode)

CallExpression(callee, typeParameters, arguments) ==
  <<"CallExpression(">> \o callee \o typeParameters
    \o <<"arguments(">> \o arguments \o <<")", ")">>

\* A function that never bails out after the type arguments.
parseSubscriptTypeArgumentsNoBailOut(m, base) ==
  LET ta == this(m, "tsParseTypeArgumentsInExpression", <<>>) IN
  IF ~ok(ta.m) THEN [m |-> ta.m, node |-> NoNode, parsed |-> FALSE, followed |-> "none"]
  ELSE IF ta.node = NoNode
    THEN [m |-> ta.m, node |-> base, parsed |-> FALSE, followed |-> "none"]
  ELSE IF ta.m.type = "parenL" THEN
    LET args == this(this(ta.m, "next", <<>>), "parseExprList", <<>>)
    IN [m |-> args.m, node |-> CallExpression(base, ta.node, args.node),
        parsed |-> TRUE, followed |-> ta.m.type]
  ELSE [m |-> ta.m,
        node |-> <<"TSInstantiationExpression(">> \o base \o ta.node \o <<")">>,
        parsed |-> TRUE, followed |-> ta.m.type]

\* The function parseSubscript hands to tsTryParseAndCatch (noCalls false,
\* no optional call): the type arguments, then the call if `(` follows;
\* NoNode (undefined) where the code bails out; else an instantiation
\* expression.  parsed: the type arguments were parsed; followed: the
\* token after them.
parseSubscriptTypeArguments(m, base) ==
  LET ta == this(m, "tsParseTypeArgumentsInExpression", <<>>) IN
  IF ~ok(ta.m) THEN [m |-> ta.m, node |-> NoNode, parsed |-> FALSE, followed |-> "none"]
  ELSE IF ta.node = NoNode
    THEN [m |-> ta.m, node |-> base, parsed |-> FALSE, followed |-> "none"]
  ELSE IF ta.m.type = "parenL" THEN
    LET args == this(this(ta.m, "next", <<>>), "parseExprList", <<>>)
    IN [m |-> args.m, node |-> CallExpression(base, ta.node, args.node),
        parsed |-> TRUE, followed |-> ta.m.type]
  ELSE IF \/ tsMatchRightRelational(ta.m)
          \/ ta.m.type = "bitShift"
          \/ /\ ta.m.type # "parenL"
             /\ tokenCanStartExpression(ta.m.type)
             /\ ~hasPrecedingLineBreak(ta.m)
    THEN [m |-> ta.m, node |-> NoNode, parsed |-> TRUE, followed |-> ta.m.type]
  ELSE [m |-> ta.m,
        node |-> <<"TSInstantiationExpression(">> \o base \o ta.node \o <<")">>,
        parsed |-> TRUE, followed |-> ta.m.type]

\* tsTryParseAndCatch, given what f did on the parser tryParse started it
\* on: `f() || abort()` inside tryParse, then undefined unless a node came
\* back.  how: "node", "aborted", "thrown" (both rolled back) or "rethrown".
tsTryParseAndCatch(oldState, f) ==
  IF ok(f.m) /\ f.node # NoNode THEN [m |-> f.m, node |-> f.node, how |-> "node"]
  ELSE
    LET error == IF ok(f.m) THEN AbortSignal(1, "null") ELSE ThrownBy(f.m)
        t == tryParseCatch([f.m EXCEPT !.raised = ""], oldState, error, 1)
    IN IF t.caught
         THEN [m |-> t.m, node |-> NoNode,
               how |-> IF t.result.aborted THEN "aborted" ELSE "thrown"]
         ELSE [m |-> raiseAt(t.m, f.m.raised), node |-> NoNode, how |-> "rethrown"]

\* parseSubscript after the type-argument attempt: a call, or the base.
parseSubscriptDefault(m, base) ==
  IF m.type = "parenL" THEN
    LET args == this(this(m, "next", <<>>), "parseExprList", <<>>)
    IN [m |-> args.m, node |-> CallExpression(base, <<>>, args.node), changed |-> TRUE]
  ELSE [m |-> m, node |-> base, changed |-> FALSE]

\* changed: the node returned is not the base passed in.
parseSubscript(m, base) ==
  IF ~ok(m) THEN [m |-> m, node |-> base, changed |-> FALSE]
  ELSE IF tsMatchLeftRelational(m) \/ m.type = "bitShift" THEN
    LET c == cloneCurLookaheadState(m)
        f == this(c.m, "parseSubscriptTypeArguments", base)
        r == tsTryParseAndCatch(c.state, f)
        m1 == Log(r.m, [kind |-> "typeArguments", at |-> m.start, op |-> m.value,
                        how |-> r.how, parsed |-> f.parsed, followed |-> f.followed,
                        restored |-> Cursor(r.m) = Cursor(m),
                        consumed |-> r.m.lastTokEnd > m.lastTokEnd,
                        call |-> r.how = "node" /\ f.followed = "parenL"])
    IN IF ~ok(m1) THEN [m |-> m1, node |-> base, changed |-> FALSE]
       ELSE IF r.node # NoNode
         THEN [m |-> m1, node |-> r.node, changed |-> r.node # base]
       ELSE this(m1, "parseSubscriptDefault", base)
  ELSE this(m, "parseSubscriptDefault", base)

parseSubscripts(m, base) ==
  LET element == this(m, "parseSubscript", base) IN
  IF ~ok(element.m) \/ ~element.changed THEN Node(element.m, element.node)
  ELSE this(element.m, "parseSubscripts", element.node)

parseExprSubscripts(m) ==
  LET expr == this(m, "parseExprAtom", <<>>) IN
  IF ~ok(expr.m) THEN expr ELSE this(expr.m, "parseSubscripts", expr.node)

parseMaybeUnary(m) == this(m, "parseExprSubscripts", <<>>)

\* The binary operators of the alphabet, which bind left to right; a shift
\* binds tighter than a comparison.
isBinop(type) == type \in {"relational", "bitShift"}

binop(type) == IF type = "bitShift" THEN 8 ELSE 7

parseExprOp(m, left, minPrec) ==
  IF ~ok(m) THEN Node(m, left)
  ELSE IF isBinop(m.type) /\ binop(m.type) > minPrec THEN
    LET m1 == Log(this(m, "next", <<>>), [kind |-> "binary", at |-> m.start, op |-> m.value,
                            how |-> "operator", parsed |-> FALSE,
                            followed |-> "none", restored |-> FALSE,
                            call |-> FALSE])
        operand == this(m1, "parseMaybeUnary", <<>>)
        right == this(operand.m, "parseExprOp",
                      [left |-> operand.node, minPrec |-> binop(m.type)])
        node == <<"BinaryExpression(">> \o left \o <<"operator(">> \o m.value
                  \o <<")">> \o right.node \o <<")">>
    IN this(right.m, "parseExprOp", [left |-> node, minPrec |-> minPrec])
  ELSE Node(m, left)

parseExprOps(m) ==
  LET expr == this(m, "parseMaybeUnary", <<>>) IN
  IF ~ok(expr.m) THEN expr
  ELSE this(expr.m, "parseExprOp", [left |-> expr.node, minPrec |-> -1])

\* parseMaybeAssign where the token is not `<`: parseMaybeAssignOrigin,
\* which comes down to parseExprOps on this alphabet.
parseMaybeAssign(m) ==
  IF ~ok(m) THEN Node(m, NoNode)
  ELSE IF matchJsx(m, "jsxTagStart") \/ tsMatchLeftRelational(m)
    THEN Node(raiseAt(m, "Unmodelled"), NoNode)
  ELSE this(m, "parseExprOps", <<>>)

\* The statements of the program: expression statements, each ended by
\* the end of the input or a line break.
parseTopLevel(m) ==
  IF ~ok(m) \/ m.type = "eof" THEN Node(m, NoNode)
  ELSE LET expr == this(m, "parseMaybeAssign", <<>>) IN
       IF ~ok(expr.m) THEN expr
       ELSE IF ~canInsertSemicolon(expr.m) THEN Node(unexpected(expr.m), NoNode)
       ELSE LET rest == this(expr.m, "parseTopLevel", <<>>)
            IN Node(rest.m, expr.node \o <<";">> \o rest.node)

\* ---------------------------------------------------------------- modifiers
\* raiseCommonCheck: the diagnostic goes to the base engine's
\* raiseRecoverable or raise. In the base engine raiseRecoverable is the
\* very function raise, which throws a SyntaxError. The log keeps what was
\* reported: the position, the message, the engine method that received it
\* and the start of the token consumed last. The rest-element comma
\* message is issued by the binding-list parser, outside the inputs here.
raiseCommonCheck(m, pos, message, recoverable) ==
  LET entry(via) == [pos |-> pos, message |-> message, via |-> via,
                     lastTokStart |-> m.lastTokStart]
      superRaise == [Log(m, entry("raise")) EXCEPT !.raised = "SyntaxError"]
      superRaiseRecoverable ==
        [Log(m, entry("raiseRecoverable")) EXCEPT !.raised = "SyntaxError"]
  IN IF message = <<"Comma is not permitted after the rest element">>
       THEN superRaise
       ELSE IF recoverable THEN superRaiseRecoverable ELSE superRaise

raise(m, pos, message) == raiseCommonCheck(m, pos, message, TRUE)

\* modified[key], as a condition.
HasModifier(modified, key) ==
  key \in DOMAIN modified /\ modified[key] \notin {"undefined", "false"}

\* enforceOrder with the two modifiers of the pair exchanged.
enforceOrderReversed(m, modified, loc, modifier, before, after) ==
  IF ok(m) /\ modifier = after /\ HasModifier(modified, before)
    THEN raise(m, loc.column, <<"InvalidModifiersOrder", before, after>>)
    ELSE m

\* enforceOrder without the test of the modifier already present.
enforceOrderAlways(m, modified, loc, modifier, before, after) ==
  IF ok(m) /\ modifier = before
    THEN raise(m, loc.column, <<"InvalidModifiersOrder", before, after>>)
    ELSE m

enforceOrder(m, modified, loc, modifier, before, after) ==
  IF ok(m) /\ modifier = before /\ HasModifier(modified, after)
    THEN raise(m, loc.column, <<"InvalidModifiersOrder", before, after>>)
    ELSE m

incompatible(m, modified, loc, modifier, mod1, mod2) ==
  IF /\ ok(m)
     /\ \/ HasModifier(modified, mod1) /\ modifier = mod2
        \/ HasModifier(modified, mod2) /\ modifier = mod1
    THEN raise(m, loc.column, <<"IncompatibleModifiers", mod1, mod2>>)
    ELSE m

\* tsParseModifier: the current word is a modifier when it is in the list
\* and the token after it, on the same line, can follow a modifier.
tsParseModifier(m, allowedModifiers, stopOnStartOfClassStaticBlock) ==
  LET none == [m |-> m, modifier |-> Undefined]
      RECURSIVE nextTokenStartSince(_)
      nextTokenStartSince(i) ==
        IF charAt(m, i) \in {" ", "\n"} THEN nextTokenStartSince(i + 1) ELSE i
      lookaheadCharCode == charAt(m, nextTokenStartSince(m.pos))
      tsIsStartOfStaticBlocks ==
        /\ m.type = "name" /\ m.value = <<"static">> /\ ~m.containsEsc
        /\ lookaheadCharCode = "{"
      tsTokenCanFollowModifier(n) ==
        n.type \in {"braceL", "name"} /\ ~hasPrecedingLineBreak(n)
      \* tsTryParse(tsNextTokenCanFollowModifier), n being the parser
      \* after next().
      tsTryParse(state, n) ==
        IF ~ok(n) THEN [m |-> n, modifier |-> Undefined]
        ELSE IF tsTokenCanFollowModifier(n)
          THEN [m |-> tsTryParseReturn(n, state, "true").m, modifier |-> m.value[1]]
          ELSE [m |-> tsTryParseReturn(n, state, "false").m, modifier |-> Undefined]
  IN IF m.type # "name" /\ m.type # "in" THEN none
     ELSE IF Len(m.value) = 1 /\ m.value[1] \in allowedModifiers /\ ~m.containsEsc
       THEN IF stopOnStartOfClassStaticBlock /\ tsIsStartOfStaticBlocks THEN none
            ELSE tsTryParse(getCurLookaheadState(m), next(m))
     ELSE none

\* tsParseModifiers: the modifiers are read one after the other and checked
\* against those already on `modified`. `calls` are the enforceOrder and
\* incompatible calls of a branch, in the order the code makes them.
tsParseModifiers(m0, modified0, allowedModifiers, disallowedModifiers, stopOnStartOfClassStaticBlock, errorTemplate) ==
  LET set(modified, key, val) == (key :> val) @@ modified
      order(before, after) == [f |-> "enforceOrder", a |-> before, b |-> after]
      excl(mod1, mod2) == [f |-> "incompatible", a |-> mod1, b |-> mod2]
      RECURSIVE run(_, _, _, _, _)
      run(m, modified, startLoc, modifier, calls) ==
        IF calls = <<>> THEN m
        ELSE run(IF calls[1].f = "enforceOrder"
                   THEN enforceOrder(m, modified, startLoc, modifier,
                                     calls[1].a, calls[1].b)
                   ELSE incompatible(m, modified, startLoc, modifier,
                                     calls[1].a, calls[1].b),
                 modified, startLoc, modifier, Tail(calls))
      branch(modified, modifier) ==
        IF modifier \in {"private", "public", "protected"} THEN
          [duplicate |-> HasModifier(modified, "accessibility"),
           message |-> <<"DuplicateAccessibilityModifier">>,
           calls |-> <<order(modifier, "override"), order(modifier, "static"),
                       order(modifier, "readonly"), order(modifier, "accessor")>>,
           key |-> "accessibility", val |-> modifier]
        ELSE IF modifier \in {"in", "out"} THEN
          [duplicate |-> HasModifier(modified, modifier),
           message |-> <<"DuplicateModifier", modifier>>,
           calls |-> <<order("in", "out")>>,
           key |-> modifier, val |-> "true"]
        ELSE IF modifier = "accessor" THEN
          [duplicate |-> HasModifier(modified, modifier),
           message |-> <<"DuplicateModifier", modifier>>,
           calls |-> <<excl("accessor", "readonly"), excl("accessor", "static"),
                       excl("accessor", "override")>>,
           key |-> modifier, val |-> "true"]
        ELSE
          [duplicate |-> modifier \in DOMAIN modified,
           message |-> <<"DuplicateModifier", modifier>>,
           calls |-> <<order("static", "readonly"), order("static", "override"),
                       order("override", "readonly"), order("abstract", "override"),
                       excl("declare", "override"), excl("static", "abstract")>>,
           key |-> modifier, val |-> "true"]
      RECURSIVE loop(_, _, _), parsed1(_, _, _, _), checked1(_, _, _, _, _)
      \* The end of an iteration: the modifier is recorded unless it was
      \* a duplicate, and a disallowed modifier is reported.
      checked1(checked, modifier, br, modified, modifiedMap) ==
        IF ~ok(checked)
          THEN [m |-> checked, modified |-> modified, modifiedMap |-> modifiedMap]
        ELSE
          LET modified1 == IF br.duplicate THEN modified
                           ELSE set(modified, br.key, br.val)
              map1 == IF br.duplicate THEN modifiedMap
                      ELSE set(modifiedMap, br.key,
                               IF br.key = "accessibility" THEN br.val ELSE br.key)
          IN IF modifier \in disallowedModifiers
               THEN [m |-> raise(checked, checked.start, errorTemplate),
                     modified |-> modified1, modifiedMap |-> map1]
               ELSE loop(checked, modified1, map1)
      \* After tsParseModifier returned p.
      parsed1(startLoc, p, modified, modifiedMap) ==
        IF ~ok(p.m) \/ p.modifier = Undefined
          THEN [m |-> p.m, modified |-> modified, modifiedMap |-> modifiedMap]
          ELSE checked1(IF branch(modified, p.modifier).duplicate
                          THEN raise(p.m, p.m.start, branch(modified, p.modifier).message)
                          ELSE run(p.m, modified, startLoc, p.modifier,
                                   branch(modified, p.modifier).calls),
                        p.modifier, branch(modified, p.modifier), modified, modifiedMap)
      loop(m, modified, modifiedMap) ==
        parsed1(m.startLoc,
                tsParseModifier(m, allowedModifiers \cup disallowedModifiers,
                                stopOnStartOfClassStaticBlock),
                modified, modifiedMap)
  IN loop(m0, modified0, <<>>)

\* this.name(arguments) on the parser m.
this(m, name, arguments) ==
  CASE name = "next" -> next(m)
    [] name = "expect" -> expect(m, arguments)
    [] name = "parseIdent" -> parseIdent(m)
    [] name = "tsParseTypeReference" -> tsParseTypeReference(m)
    [] name = "tsParseTypeParameter" -> tsParseTypeParameter(m)
    [] name = "tsParseDelimitedList" -> tsParseDelimitedList(m, arguments)
    [] name = "tsParseTypeParameters" -> tsParseTypeParameters(m)
    [] name = "parseBindingList" -> parseBindingList(m)
    [] name = "tsParseFunctionOrConstructorType" -> tsParseFunctionOrConstructorType(m)
    [] name = "tsIsUnambiguouslyStartOfFunctionType" ->
         tsIsUnambiguouslyStartOfFunctionType(m)
    [] name = "tsLookAhead" -> tsLookAhead(m, arguments)
    [] name = "tsIsStartOfFunctionType" -> tsIsStartOfFunctionType(m)
    [] name = "tsParseParenthesizedType" -> tsParseParenthesizedType(m)
    [] name = "tsParseNonArrayType" -> tsParseNonArrayType(m)
    [] name = "tsParseType" -> tsParseType(m)
    [] name = "tsParseTypeArguments" -> tsParseTypeArguments(m)
    [] name = "tsParseTypeArgumentsInExpression" -> tsParseTypeArgumentsInExpression(m)
    [] name = "parseExprList" -> parseExprList(m)
    [] name = "parseParenAndDistinguishExpression" ->
         parseParenAndDistinguishExpression(m)
    [] name = "parseExprAtom" -> parseExprAtom(m)
    [] name = "parseSubscriptTypeArguments" -> parseSubscriptTypeArguments(m, arguments)
    [] name = "parseSubscriptDefault" -> parseSubscriptDefault(m, arguments)
    [] name = "parseSubscript" -> parseSubscript(m, arguments)
    [] name = "parseSubscripts" -> parseSubscripts(m, arguments)
    [] name = "parseExprSubscripts" -> parseExprSubscripts(m)
    [] name = "parseMaybeUnary" -> parseMaybeUnary(m)
    [] name = "parseExprOp" -> parseExprOp(m, arguments.left, arguments.minPrec)
    [] name = "parseExprOps" -> parseExprOps(m)
    [] name = "parseMaybeAssign" -> parseMaybeAssign(m)
    [] name = "parseTopLevel" -> parseTopLevel(m)

parse(input) == this(nextToken(NewParser(input)), "parseTopLevel", <<>>)

\* One input is parsed from its first token to its end or its error.
InitExpr ==
  /\ \E input \in ExprInputs : parser = NewParser(input)
  /\ stack = <<>>
  /\ exc = NoError
  /\ last = Idle
  /\ ops = 0
  /\ pma = NoPMA
  /\ parsed = NotParsed

ParseInput ==
  /\ ~parsed.done
  /\ LET finish(r) ==
           /\ parser' = [r.m EXCEPT !.raised = "", !.log = <<>>]
           /\ parsed' = [done |-> TRUE, raised |-> r.m.raised, node |-> r.node,
                         log |-> r.m.log]
     IN finish(parse(parser.input))
  /\ UNCHANGED <<stack, exc, last, ops, pma>>

SpecExpr == InitExpr /\ [][ParseInput]_vars

\* ------------------------------------------------- speculation: properties
\* The innermost call that has just finished, and how.
FailedTryParse == last.op = "tryParse" /\ last.how = "catch"

RethrownByTryParse == last.op = "tryParse" /\ last.how = "rethrow"

PeekDone == last.op = "tsLookAhead" /\ last.how = "return"

FailedTsTryParse ==
  last.op = "tsTryParse" /\ last.how = "return" /\ last.ret \in {"undefined", "false"}

\* The token the parser reads next, as the tokenizer leaves it.
NextToken(m) == LET n == next(m) IN [token |-> Token(n), raised |-> n.raised]

\* n times next(), up to a tokenizer error.
RECURSIVE nextN(_, _)
nextN(m, n) == IF n = 0 \/ m.raised # "" THEN m ELSE nextN(next(m), n - 1)

\* C1: when fn throws a SyntaxError or calls abort, whatever the number of
\* tokens it consumed, the cursor state (offset, current and previous
\* token, line tracking, escape flag, entries of the context stack) when
\* tryParse returns equals the cursor state when tryParse was entered.
C1_FailedTryParseRestoresCursor ==
  FailedTryParse => Cursor(parser) = last.entry.cursor

\* C1, its case: a failed tryParse whose fn had moved the cursor and had
\* changed the context stack.
C1_Witness ==
  /\ FailedTryParse
  /\ last.before.cursor.pos > last.entry.cursor.pos
  /\ last.before.cursor.context # last.entry.cursor.context

\* C2: in any parser state and for any N, cloneCurLookaheadState, N times
\* next(), then setLookaheadState of that snapshot gives back the token,
\* the offset and the context-stack entries of the capture (and the rest of
\* the cursor state); with N = 0 nothing the tokenizer reads has changed.
C2_SnapshotRoundTrip ==
  LET c == cloneCurLookaheadState(parser)
      RECURSIVE roundTrips(_, _)
      roundTrips(advanced, n) ==
        /\ Cursor(setLookaheadState(advanced, c.state)) = Cursor(parser)
        /\ n = 0 \/ roundTrips(nextN(advanced, 1), n - 1)
  IN /\ roundTrips(c.m, MaxTokLen + 1)
     /\ View(setLookaheadState(c.m, c.state)) = View(parser)

\* C2, its case: tokens have been read and a context is open; reading two
\* more tokens moves the offset and closes the context.
C2_Witness ==
  LET after == nextN(cloneCurLookaheadState(parser).m, 2)
  IN /\ parser.pos > 0
     /\ Len(contextOf(parser)) > 1
     /\ after.raised = ""
     /\ after.pos > parser.pos + 1
     /\ Len(contextOf(after)) < Len(contextOf(parser))

\* C3 (as stated): a branch that rolled back leaves no trace; what is read
\* after a failed tryParse is what would have been read had the branch
\* never been attempted, that is, from the state at its entry.
C3_RollbackLeavesNoTrace ==
  FailedTryParse => NextToken(parser) = NextToken(ParserAt(parser.input, last.entry))

\* C4 (as stated): after a failed tryParse, a failed tsTryParse or a
\* tsLookAhead, exprAllowed has the value it had when the snapshot was taken.
C4_ExprAllowedRestored ==
  (FailedTryParse \/ FailedTsTryParse \/ PeekDone)
    => parser.exprAllowed = last.entry.exprAllowed

\* C5 (as stated): tsLookAhead(f), and tsTryParse(f) when f returns
\* undefined or false, leave the context stack with the entries it had
\* before the call.
C5_ContextBalanced ==
  (PeekDone \/ FailedTsTryParse) => contextOf(parser) = last.entry.cursor.context

\* C6: tryParse ends in one of three ways and passes no SyntaxError on. fn
\* returns: {node: fn's result, error: null, thrown: false, aborted: false,
\* failState: null}, the parser left as fn left it. abort(n) of this
\* tryParse: {node: n, error: null, thrown: false, aborted: true}. A
\* SyntaxError inside fn: {node: null, error: it, thrown: true, aborted:
\* false}, and no exception leaves tryParse.
C6_TryParseOutcomes ==
  last.op = "tryParse" =>
    /\ last.how = "return" =>
         /\ last.result = [node |-> last.ret, error |-> NoError, thrown |-> FALSE,
                           aborted |-> FALSE, failState |-> NullState]
         /\ View(parser) = last.before
         /\ exc = NoError
    /\ last.error = AbortSignal(Len(stack) + 1, last.error.node) =>
         /\ last.how = "catch"
         /\ last.result.node = last.error.node
         /\ last.result.error = NoError
         /\ ~last.result.thrown /\ last.result.aborted
         /\ exc = NoError
    /\ last.error.kind = "SyntaxError" =>
         /\ last.how = "catch"
         /\ last.result.node = "null"
         /\ last.result.error = last.error
         /\ last.result.thrown /\ ~last.result.aborted
         /\ exc = NoError
    /\ last.how \in {"return", "catch"} =>
         Cardinality({o \in {"return", "abort", "thrown"} :
                        \/ o = "return" /\ last.how = "return"
                        \/ o = "abort" /\ last.result.aborted
                        \/ o = "thrown" /\ last.result.thrown}) = 1

\* C6, its case: fn called abort with a partial node.
C6_Witness ==
  /\ FailedTryParse
  /\ last.error.kind = "abort"
  /\ last.result.node = "partial"

\* C7 (as stated): an exception that is neither a SyntaxError nor the abort
\* signal leaves tryParse with the cursor state of the moment of the throw.
C7_RethrowWithoutRestore ==
  RethrownByTryParse => Cursor(parser) = last.before.cursor

\* C7 (amended): such an exception is rethrown after the snapshot has been
\* restored: it leaves tryParse, and the cursor state is then the one at
\* tryParse entry.
C7_RethrowAfterRestore ==
  RethrownByTryParse =>
    /\ exc = last.error
    /\ last.error.kind # "SyntaxError"
    /\ last.error # AbortSignal(Len(stack) + 1, last.error.node)
    /\ Cursor(parser) = last.entry.cursor

\* C7, its case: fn had consumed tokens when it threw an Error.
C7_Witness ==
  /\ RethrownByTryParse
  /\ last.error.kind = "Error"
  /\ last.before.cursor # last.entry.cursor

\* ---------------------------------------------- parseMaybeAssign: properties
\* parseMaybeAssign has ended after at least one attempt.
PMA_Done == pma.stage = "done" /\ pma.attempts # <<>>

\* An attempt failed: tryParse reported thrown or aborted.
Failed(result) == result.thrown \/ result.aborted

\* C8 (as stated): with `<` as the current token the alternatives are tried
\* in the order JSX/ordinary expression, arrow function with type
\* parameters, angle-bracket type assertion, each later one when all the
\* earlier ones failed: when the first two have failed the third is tried.
C8_ThreeAlternatives ==
  /\ \E n \in 0 .. 3 : pma.attempts = SubSeq(<<"jsx", "arrow", "typeCast">>, 1, n)
  /\ (PMA_Done /\ Failed(pma.jsx) /\ Failed(pma.arrow)) => Len(pma.attempts) = 3

\* C8 (amended): with `<` as the current token the ordinary expression
\* (JSX) is tried first and the arrow function with type parameters second,
\* the second exactly when the first threw a parse error; nothing is tried
\* after them; the node returned is the node of the attempt that ended
\* without error, which is the last one made.
C8_TwoAlternatives ==
  /\ \E n \in 0 .. 2 : pma.attempts = SubSeq(<<"jsx", "arrow">>, 1, n)
  /\ Len(pma.attempts) = 2 => pma.jsx.thrown
  /\ (PMA_Done /\ pma.jsx.thrown) => Len(pma.attempts) = 2
  /\ (PMA_Done /\ pma.outcome.kind = "node") =>
       /\ pma.outcome.from = pma.attempts[Len(pma.attempts)]
       /\ pma.outcome.from = "jsx" =>
            ~Failed(pma.jsx) /\ pma.outcome.node = pma.jsx.node
       /\ pma.outcome.from = "arrow" =>
            ~Failed(pma.arrow) /\ pma.outcome.node = pma.arrow.node
       /\ exc = NoError

\* C8, its case: the JSX attempt consumed tokens and threw, and the arrow
\* attempt gave the node.
C8_Witness ==
  /\ PMA_Done
  /\ pma.attempts = <<"jsx", "arrow">>
  /\ pma.outcome.kind = "node"
  /\ pma.jsx.failState.pos > pma.state.pos

\* C9 (as stated): an error of a branch reaches the caller only when every
\* attempt has failed, and it is then the error of the last attempt.
C9_LastErrorSurfaces ==
  (PMA_Done /\ pma.outcome.kind = "throw" /\ exc.kind = "SyntaxError") =>
    /\ Failed(pma.jsx) /\ Failed(pma.arrow)
    /\ exc = pma.arrow.error

\* C9 (amended): a parse error of a branch reaches the caller only when
\* every attempt made has failed, and it is then the error of the first
\* attempt, the ordinary-expression (JSX) one, whatever the later attempt
\* threw or aborted with.
C9_FirstErrorSurfaces ==
  /\ (pma.attempts # <<>> /\ stack = <<>> /\ exc.kind = "SyntaxError") =>
       /\ PMA_Done
       /\ pma.attempts = <<"jsx", "arrow">>
       /\ Failed(pma.jsx) /\ Failed(pma.arrow)
       /\ exc = pma.jsx.error
       /\ pma.outcome = [kind |-> "throw", from |-> "jsx", node |-> "none",
                         error |-> pma.jsx.error]
  /\ (PMA_Done /\ Failed(pma.jsx) /\ Failed(pma.arrow)) => exc = pma.jsx.error

\* C9, its case: both attempts threw, at different places.
C9_Witness ==
  /\ PMA_Done
  /\ exc.kind = "SyntaxError"
  /\ pma.arrow.thrown
  /\ pma.arrow.error # pma.jsx.error

\* ------------------------------------------------- parseSubscript: properties
\* The attempts at type arguments parseSubscript made, in the log.
TypeArgumentAttempts ==
  {i \in 1 .. Len(parsed.log) : parsed.log[i].kind = "typeArguments"}

\* An attempt that tsTryParseAndCatch answered with undefined.
RolledBack(e) == e.how \in {"aborted", "thrown"}

\* C10: generic versus comparison.  At `<` (or `<<`) after an expression,
\* parseSubscript tries type arguments.  If they parse and `(` follows, the
\* result is a call carrying the type arguments, provided its argument list
\* parses.  If they do not parse, or parse and are followed by a name, a
\* `>` or a shift, the attempt is rolled back: the cursor is again as it
\* was at `<`, and the next thing parsed is that very token as a binary
\* operator.  `a<a>(a)` is a call with type arguments; `a<a>a` is two
\* comparisons, (a < a) > a.
C10_GenericOrComparison ==
  /\ parsed.done =>
       \A i \in TypeArgumentAttempts :
         LET e == parsed.log[i] IN
         /\ e.call => e.parsed /\ e.followed = "parenL"
         /\ (e.parsed /\ e.followed = "parenL") => e.call \/ e.how \in {"thrown", "rethrown"}
         /\ ~e.parsed => e.how \in {"thrown", "rethrown"}
         /\ (e.parsed /\ e.followed \in {"name", "bitShift"}) => e.how = "aborted"
         /\ e.how = "aborted" => e.parsed /\ e.followed # "parenL"
         /\ RolledBack(e) =>
              /\ e.restored
              /\ i < Len(parsed.log)
              /\ parsed.log[i + 1].kind = "binary"
              /\ parsed.log[i + 1].at = e.at
              /\ parsed.log[i + 1].op = e.op
  /\ (parsed.done /\ parser.input = <<"a", "<", "a", ">", "(", "a", ")">>) =>
       /\ parsed.raised = ""
       /\ parsed.node =
            CallExpression(<<"Identifier(", "a", ")">>,
                           <<"TSTypeParameterInstantiation(", "TSTypeReference(",
                             "Identifier(", "a", ")", ")", ")">>,
                           <<"Identifier(", "a", ")">>) \o <<";">>
  /\ (parsed.done /\ parser.input = <<"a", "<", "a", ">", "a">>) =>
       /\ parsed.raised = ""
       /\ parsed.node =
            <<"BinaryExpression(", "BinaryExpression(", "Identifier(", "a", ")",
              "operator(", "<", ")", "Identifier(", "a", ")", ")",
              "operator(", ">", ")", "Identifier(", "a", ")", ")", ";">>

\* C10, its case: a program parsed to its end in which one attempt at type
\* arguments was rolled back and `<` became a comparison, and another gave
\* a call with type arguments.
C10_Witness ==
  /\ parsed.done
  /\ parsed.raised = ""
  /\ \E i \in TypeArgumentAttempts :
       RolledBack(parsed.log[i]) /\ parsed.log[i].restored
  /\ \E i \in TypeArgumentAttempts : parsed.log[i].call



\* ------------------------------------------------------ variable statements
\* isPossiblyLiteralEnum: a member expression over an uncomputed chain of
\* identifiers, its own property uncomputed or a plain template.
isPossiblyLiteralEnum(expression) ==
  LET RECURSIVE isUncomputedMemberExpressionChain(_)
      isUncomputedMemberExpressionChain(e) ==
        IF e.type = "Identifier" THEN TRUE
        ELSE IF e.type # "MemberExpression" THEN FALSE
        ELSE IF e.computed THEN FALSE
        ELSE isUncomputedMemberExpressionChain(e.object)
  IN IF expression.type # "MemberExpression" THEN FALSE
     ELSE IF /\ expression.computed
             /\ \/ expression.property.type # "TemplateLiteral"
                \/ expression.property.expressions > 0
       THEN FALSE
     ELSE isUncomputedMemberExpressionChain(expression.object)

\* A variable statement as written: its keyword, whether `declare` stands
\* before it, and one or two declarators, each with or without a type
\* annotation and with an initializer of one of these forms or "none":
\*   "a", 1, true, 1n, `a`, `a${b}`, A.B, A.B.C, A[b], A[`b`], A, f().
VarStatements ==
  LET Forms == {"none", "string", "number", "boolean", "bigint", "template",
                "templateExpr", "member", "chain", "computed", "computedTemplate",
                "identifier", "call"}
      Declarators == [typeAnnotation : BOOLEAN, init : Forms]
  IN [kind : {"var", "let", "const"}, declare : BOOLEAN,
      declarations : {<<d>> : d \in Declarators}
                       \cup {<<d, e>> : d \in Declarators,
                                        e \in [typeAnnotation : {FALSE},
                                               init : {"none", "string", "identifier"}]}]

\* The parser stands at the keyword of the statement; isAmbientContext is
\* set from the start when the file is a declaration file.
InitVarStatement ==
  /\ \E st \in VarStatements, dts \in BOOLEAN :
       parser = [statement |-> st, isAmbientContext |-> dts, raised |-> "",
                 log |-> <<>>, lastTokStart |-> 0]
  /\ stack = <<>>
  /\ exc = NoError
  /\ last = Idle
  /\ ops = 0
  /\ pma = NoPMA
  /\ parsed = NotParsed

\* parseVarStatement, under tsInAmbientContext when `declare` stands before
\* the statement. The base engine's parseVar gives each initializer its
\* node (a literal of any kind is a node of type Literal) and rejects a
\* const without initializer unless that is allowed.
parseVarStatement ==
  /\ ~parsed.done
  /\ LET st == parser.statement
         Identifier == [type |-> "Identifier"]
         Template(n) == [type |-> "TemplateLiteral", expressions |-> n]
         Member(object, computed, property) ==
           [type |-> "MemberExpression", object |-> object, computed |-> computed,
            property |-> property]
         parseMaybeAssignInit(form) ==
           CASE form \in {"string", "number", "boolean", "bigint"} -> [type |-> "Literal"]
             [] form = "template" -> Template(0)
             [] form = "templateExpr" -> Template(1)
             [] form = "member" -> Member(Identifier, FALSE, Identifier)
             [] form = "chain" ->
                  Member(Member(Identifier, FALSE, Identifier), FALSE, Identifier)
             [] form = "computed" -> Member(Identifier, TRUE, Identifier)
             [] form = "computedTemplate" -> Member(Identifier, TRUE, Template(0))
             [] form = "identifier" -> Identifier
             [] form = "call" -> [type |-> "CallExpression"]
         \* Offsets: the keyword is one symbol, each declarator four.
         initStart(i) == 4 * i
         isAmbientContext == parser.isAmbientContext \/ st.declare
         allowMissingInitializer == FALSE
         RECURSIVE parseVar(_, _), check(_, _)
         parseVar(m, i) ==
           IF i > Len(st.declarations) \/ ~ok(m) THEN m
           ELSE IF /\ st.declarations[i].init = "none"
                   /\ ~(allowMissingInitializer \/ isAmbientContext)
                   /\ st.kind = "const"
             THEN raiseAt(m, "SyntaxError")
           ELSE parseVar(m, i + 1)
         check(m, i) ==
           IF i > Len(st.declarations) \/ ~ok(m) THEN m
           ELSE LET id == st.declarations[i]
                    init == parseMaybeAssignInit(id.init)
                IN IF id.init = "none" THEN check(m, i + 1)
                   ELSE IF st.kind # "const" \/ id.typeAnnotation
                     THEN check(raise(m, initStart(i),
                                      <<"InitializerNotAllowedInAmbientContext">>), i + 1)
                   ELSE IF /\ init.type # "StringLiteral"
                           /\ init.type # "BooleanLiteral"
                           /\ init.type # "NumericLiteral"
                           /\ init.type # "BigIntLiteral"
                           /\ (init.type # "TemplateLiteral" \/ init.expressions > 0)
                           /\ ~isPossiblyLiteralEnum(init)
                     THEN check(raise(m, initStart(i),
                            <<"ConstInitiailizerMustBeStringOrNumericLiteralOrLiteralEnumReference">>),
                                i + 1)
                   ELSE check(m, i + 1)
         finish(r) ==
           /\ parser' = [r EXCEPT !.raised = "", !.log = <<>>]
           /\ parsed' = [done |-> TRUE, raised |-> r.raised,
                         node |-> IF ok(r) THEN "VariableDeclaration" ELSE NoNode,
                         log |-> r.log]
     IN finish(IF isAmbientContext THEN check(parseVar(parser, 1), 1)
               ELSE parseVar(parser, 1))
  /\ UNCHANGED <<stack, exc, last, ops, pma>>

SpecVarStatement == InitVarStatement /\ [][parseVarStatement]_vars

\* --------------------------------------------------------------- tuple types
\* tsParseTupleElementType that forgets the `?` of an unlabeled element.
tsParseTupleElementTypeNoOptional(m, el, startPos) ==
  LET type == [type |-> IF el.form = "ref" THEN "TSTypeReference" ELSE "TSArrayType",
               optional |-> FALSE, start |-> startPos + (IF el.rest THEN 1 ELSE 0),
               typeAnnotation |-> "none"]
      m1 == IF el.labeled /\ el.form # "ref"
              THEN raise(m, type.start, <<"InvalidTupleMemberLabel">>)
              ELSE m
      type1 == IF el.labeled
                 THEN [type |-> "TSNamedTupleMember", optional |-> el.optional,
                       start |-> type.start, typeAnnotation |-> "none"]
               ELSE IF FALSE
                 THEN [type |-> "TSOptionalType", optional |-> FALSE,
                       start |-> type.start, typeAnnotation |-> type.type]
               ELSE type
  IN Node(m1, IF el.rest
                THEN [type |-> "TSRestType", optional |-> FALSE, start |-> startPos,
                      typeAnnotation |-> type1.type]
                ELSE type1)

\* tsParseTupleElementType that wraps a rest element as an optional one.
tsParseTupleElementTypeRestAsOptional(m, el, startPos) ==
  LET type == [type |-> IF el.form = "ref" THEN "TSTypeReference" ELSE "TSArrayType",
               optional |-> FALSE, start |-> startPos + (IF el.rest THEN 1 ELSE 0),
               typeAnnotation |-> "none"]
      m1 == IF el.labeled /\ el.form # "ref"
              THEN raise(m, type.start, <<"InvalidTupleMemberLabel">>)
              ELSE m
      type1 == IF el.labeled
                 THEN [type |-> "TSNamedTupleMember", optional |-> el.optional,
                       start |-> type.start, typeAnnotation |-> "none"]
               ELSE IF el.optional
                 THEN [type |-> "TSOptionalType", optional |-> FALSE,
                       start |-> type.start, typeAnnotation |-> type.type]
               ELSE type
  IN Node(m1, IF el.rest
                THEN [type |-> "TSOptionalType", optional |-> FALSE, start |-> startPos,
                      typeAnnotation |-> type1.type]
                ELSE type1)

\* tsParseTupleElementType on an element written `...`? type `?`? and, if
\* labeled, `:` type. `form` is the first type: "ref" a plain identifier,
\* "other" any other type. The element starts at startPos.
tsParseTupleElementType(m, el, startPos) ==
  LET type == [type |-> IF el.form = "ref" THEN "TSTypeReference" ELSE "TSArrayType",
               optional |-> FALSE, start |-> startPos + (IF el.rest THEN 1 ELSE 0),
               typeAnnotation |-> "none"]
      m1 == IF el.labeled /\ el.form # "ref"
              THEN raise(m, type.start, <<"InvalidTupleMemberLabel">>)
              ELSE m
      type1 == IF el.labeled
                 THEN [type |-> "TSNamedTupleMember", optional |-> el.optional,
                       start |-> type.start, typeAnnotation |-> "none"]
               ELSE IF el.optional
                 THEN [type |-> "TSOptionalType", optional |-> FALSE,
                       start |-> type.start, typeAnnotation |-> type.type]
               ELSE type
  IN Node(m1, IF el.rest
                THEN [type |-> "TSRestType", optional |-> FALSE, start |-> startPos,
                      typeAnnotation |-> type1.type]
                ELSE type1)

\* tsParseTupleType: the elements are parsed, then validated from left to
\* right: no required element after an optional one, and labeled and
\* unlabeled elements are not mixed.
tsParseTupleType(m0, elements) ==
  LET RECURSIVE tsParseBracketedList(_, _), forEach(_, _, _, _), checkLabel(_, _, _, _, _)
      tsParseBracketedList(m, i) ==
        IF i > Len(elements) \/ ~ok(m) THEN Node(m, <<>>)
        ELSE LET e == tsParseTupleElementType(m, elements[i], 2 * i - 1)
                 rest == tsParseBracketedList(e.m, i + 1)
             IN Node(rest.m, <<e.node>> \o rest.node)
      \* The second half of the callback: the label check.
      checkLabel(m, elementTypes, i, seenOptionalElement, labeledElements) ==
        LET elementNode == elementTypes[i]
            type == elementNode.type
            checkType == IF type = "TSRestType" THEN elementNode.typeAnnotation ELSE type
            start == IF type = "TSRestType" THEN elementNode.start + 1
                     ELSE elementNode.start
            isLabeled == IF checkType = "TSNamedTupleMember" THEN "true" ELSE "false"
            labeled1 == IF labeledElements = "null" THEN isLabeled ELSE labeledElements
        IN IF ~ok(m) THEN m
           ELSE IF labeled1 # isLabeled
             THEN raise(m, start, <<"MixedLabeledAndUnlabeledElements">>)
           ELSE forEach(m, elementTypes, i + 1, [seen |-> seenOptionalElement,
                                                 labeled |-> labeled1])
      forEach(m, elementTypes, i, st) ==
        IF i > Len(elementTypes) \/ ~ok(m) THEN m
        ELSE LET elementNode == elementTypes[i]
                 type == elementNode.type
             IN checkLabel(IF /\ st.seen
                              /\ type # "TSRestType"
                              /\ type # "TSOptionalType"
                              /\ ~(type = "TSNamedTupleMember" /\ elementNode.optional)
                             THEN raise(m, elementNode.start,
                                        <<"OptionalTypeBeforeRequired">>)
                             ELSE m,
                           elementTypes, i,
                           \/ st.seen
                           \/ type = "TSNamedTupleMember" /\ elementNode.optional
                           \/ type = "TSOptionalType",
                           st.labeled)
      validate(list) == forEach(list.m, list.node, 1, [seen |-> FALSE, labeled |-> "null"])
  IN validate(tsParseBracketedList(m0, 1))

\* A tuple type as written, element by element.
InitTupleType ==
  /\ \E elements \in SeqsUpTo([rest : BOOLEAN, optional : BOOLEAN, labeled : BOOLEAN,
                               form : {"ref", "other"}], MaxElements) :
       parser = [elements |-> elements, raised |-> "", log |-> <<>>, lastTokStart |-> 0]
  /\ stack = <<>>
  /\ exc = NoError
  /\ last = Idle
  /\ ops = 0
  /\ pma = NoPMA
  /\ parsed = NotParsed

ParseTupleType ==
  /\ ~parsed.done
  /\ LET finish(r) ==
           /\ parser' = [r EXCEPT !.raised = "", !.log = <<>>]
           /\ parsed' = [done |-> TRUE, raised |-> r.raised,
                         node |-> IF ok(r) THEN "TSTupleType" ELSE NoNode,
                         log |-> r.log]
     IN finish(tsParseTupleType(parser, parser.elements))
  /\ UNCHANGED <<stack, exc, last, ops, pma>>

SpecTupleType == InitTupleType /\ [][ParseTupleType]_vars

\* ---------------------------------------------- type parameters and arguments
\* The lists `<` ... `>` of type parameters and of type arguments, token by
\* token: "a" a name, which alone is a type parameter and a type, "," and
\* ">". Every token is one character wide; `<` is at offset 0, so that
\* token i of the list is at offset i. pos is the index of the current
\* token, past the last one the token is eof.
\*
\* tsParseDelimitedListWorker("TypeParametersOrArguments", parseElement,
\* true, refTrailingCommaPos): the elements up to `>`; the reference, if
\* one is given, receives the offset of a comma that ends the list.
tsParseDelimitedListWorker(m0, refTrailingCommaPos) ==
  LET RECURSIVE loop(_, _, _)
      type(m) == IF m.pos <= Len(m.tokens) THEN m.tokens[m.pos] ELSE "eof"
      nextTok(m) == [m EXCEPT !.lastTokStart = m.pos, !.pos = m.pos + 1]
      out(m, length, trailingCommaPos) ==
        [m |-> m, length |-> length,
         ref |-> IF refTrailingCommaPos.given /\ ok(m)
                   THEN [refTrailingCommaPos EXCEPT !.value = trailingCommaPos]
                   ELSE refTrailingCommaPos]
      \* after parseElement returned
      separator(m, length) ==
        IF type(m) = "," THEN loop(nextTok(m), length, m.pos)
        ELSE IF type(m) = ">" THEN out(m, length, -1)
        ELSE out(raise(m, m.pos, <<"Unexpected token">>), length, -1)
      loop(m, length, trailingCommaPos) ==
        IF type(m) = ">" THEN out(m, length, trailingCommaPos)
        ELSE IF type(m) # "a"
          THEN out(raise(m, m.pos, <<"Unexpected token">>), length, -1)
        ELSE separator(nextTok(m), length + 1)
  IN loop(m0, 0, -1)

\* The list as written after `<`.
InitTypeList ==
  /\ \E tokens \in SeqsUpTo({"a", ",", ">"}, MaxListLen) :
       parser = [tokens |-> tokens, pos |-> 1, lastTokStart |-> 0,
                 raised |-> "", log |-> <<>>]
  /\ stack = <<>>
  /\ exc = NoError
  /\ last = Idle
  /\ ops = 0
  /\ pma = NoPMA
  /\ parsed = NotParsed

\* tsParseTypeParameters after its `<`: the bracketed list with a
\* reference for the trailing comma, the closing `>`, the check for an
\* empty list, and the comma's offset added to the node as
\* extra.trailingComma.
ParseTypeParameters ==
  /\ ~parsed.done
  /\ LET finish(list) ==
           LET m1 == IF ~ok(list.m) THEN list.m
                     ELSE IF list.length = 0
                       THEN raise(list.m, list.m.pos + 1, <<"EmptyTypeParameters">>)
                     ELSE list.m
               extra == IF list.ref.value # -1
                          THEN [trailingComma |-> list.ref.value]
                          ELSE <<>>
           IN /\ parser' = parser
              /\ parsed' = [done |-> TRUE, of |-> "tsParseTypeParameters",
                            raised |-> m1.raised,
                            node |-> IF ok(m1) THEN "TSTypeParameterDeclaration"
                                     ELSE NoNode,
                            log |-> m1.log, length |-> list.length,
                            extra |-> IF ok(m1) THEN extra ELSE <<>>]
     IN finish(tsParseDelimitedListWorker(parser, [given |-> TRUE, value |-> -1]))
  /\ UNCHANGED <<stack, exc, last, ops, pma>>

\* tsParseTypeArguments after its `<`: the delimited list, to which no
\* reference is passed, the check for an empty list, the closing `>`.
ParseTypeArguments ==
  /\ ~parsed.done
  /\ LET finish(list) ==
           LET m1 == IF ~ok(list.m) THEN list.m
                     ELSE IF list.length = 0
                       THEN raise(list.m, list.m.pos, <<"EmptyTypeArguments">>)
                     ELSE list.m
           IN /\ parser' = parser
              /\ parsed' = [done |-> TRUE, of |-> "tsParseTypeArguments",
                            raised |-> m1.raised,
                            node |-> IF ok(m1) THEN "TSTypeParameterInstantiation"
                                     ELSE NoNode,
                            log |-> m1.log, length |-> list.length,
                            extra |-> <<>>]
     IN finish(tsParseDelimitedListWorker(parser, [given |-> FALSE, value |-> -1]))
  /\ UNCHANGED <<stack, exc, last, ops, pma>>

NextTypeList == ParseTypeParameters \/ ParseTypeArguments

SpecTypeList == InitTypeList /\ [][NextTypeList]_vars

\* -------------------------------------------------------------------- scopes
\* The scope stack and the stack of import names. A scope is its flags (a
\* set of flag names), the names bound in it by kind, and `auxiliary`: which
\* of its five TypeScript name lists exist (a list that was never assigned
\* is undefined). `by` tells which call opened the scope: "this" the
\* parser's own enterScope, "super" the base engine's, reached directly.
\* Speculation is a frame of `stack` that remembers the depth of the scope
\* stack when tryParse was entered.
acornScope ==
  [BIND_LEXICAL |-> 2, BIND_TS_TYPE |-> 6, BIND_TS_INTERFACE |-> 7,
   BIND_FLAGS_TS_EXPORT_ONLY |-> 1024, BIND_FLAGS_TS_IMPORT |-> 4096,
   BIND_KIND_VALUE |-> 0, BIND_KIND_TYPE |-> 0,
   BIND_FLAGS_TS_ENUM |-> 256, BIND_FLAGS_TS_CONST_ENUM |-> 512,
   BIND_FLAGS_CLASS |-> 128]

RECURSIVE BitAnd(_, _)
\* a & b
BitAnd(a, b) ==
  IF a = 0 \/ b = 0 THEN 0
  ELSE (a % 2) * (b % 2) + 2 * BitAnd(a \div 2, b \div 2)

AuxiliaryLists == {"types", "enums", "constEnums", "classes", "exportOnlyBindings"}

\* super.enterScope(flags): the base engine pushes a scope with its own
\* lists only.
superEnterScope(m, flags) ==
  [m EXCEPT !.scopeStack =
     Append(@, [flags |-> flags, var |-> {}, lexical |-> {}, types |-> {},
                auxiliary |-> {}, by |-> "super"])]

\* enterScope(flags) of the TypeScript parser.
enterScope(m, flags) ==
  LET m1 == IF flags = {"TS_SCOPE_TS_MODULE"}
              THEN [m EXCEPT !.importsStack = Append(@, {})]
              ELSE m
      m2 == superEnterScope(m1, flags)
      n == Len(m2.scopeStack)
  IN [m2 EXCEPT !.scopeStack[n].auxiliary = AuxiliaryLists,
                !.scopeStack[n].by = "this"]

superExitScope(m) ==
  [m EXCEPT !.scopeStack = SubSeq(@, 1, Len(@) - 1)]

\* exitScope() of the TypeScript parser.
exitScope(m) ==
  LET scope == m.scopeStack[Len(m.scopeStack)]
      m1 == IF scope.flags = {"TS_SCOPE_TS_MODULE"}
              THEN [m EXCEPT !.importsStack = SubSeq(@, 1, Len(@) - 1)]
              ELSE m
  IN superExitScope(m1)

\* isRedeclaredInScope, whose first test is on BIND_KIND_VALUE.
isRedeclaredInScope(scope, name, bindingType) ==
  IF BitAnd(bindingType, acornScope.BIND_KIND_VALUE) = 0 THEN FALSE
  ELSE IF BitAnd(bindingType, acornScope.BIND_LEXICAL) # 0
    THEN name \in scope.lexical \/ name \in scope.var
  ELSE name \in scope.lexical

\* declareName(name, bindingType, pos) for a binding that is neither an
\* import nor export-only. super.declareName is the base engine's: a
\* lexical binding (bindingType === 2) is checked against and added to the
\* current scope; every other binding type is treated as a `var`, added to
\* each scope up to the nearest function or top-level scope and clashing
\* with a lexical name on the way.
declareName(m, name, bindingType, pos) ==
  LET RECURSIVE hoist(_, _)
      n == Len(m.scopeStack)
      redeclaration == <<"Identifier has already been declared">>
      hoist(mm, i) ==
        IF i = 0 THEN mm
        ELSE IF name \in mm.scopeStack[i].lexical THEN raise(mm, pos, redeclaration)
        ELSE LET m1 == [mm EXCEPT !.scopeStack[i].var = @ \cup {name}]
             IN IF mm.scopeStack[i].flags \cap {"SCOPE_TOP", "SCOPE_FUNCTION"} # {}
                  THEN m1 ELSE hoist(m1, i - 1)
      superDeclareName ==
        IF bindingType = acornScope.BIND_LEXICAL
          THEN IF name \in m.scopeStack[n].lexical \/ name \in m.scopeStack[n].var
                 THEN raise(m, pos, redeclaration)
                 ELSE [m EXCEPT !.scopeStack[n].lexical = @ \cup {name}]
          ELSE hoist(m, n)
      \* the part after super.declareName
      types(m1) ==
        IF ~ok(m1) THEN m1
        ELSE IF BitAnd(bindingType, acornScope.BIND_KIND_TYPE) # 0
          THEN LET m2 == IF /\ BitAnd(bindingType, acornScope.BIND_KIND_VALUE) = 0
                            /\ isRedeclaredInScope(m1.scopeStack[n], name, bindingType)
                           THEN raise(m1, pos, redeclaration)
                           ELSE m1
               IN IF ~ok(m2) THEN m2
                  ELSE IF "types" \in m2.scopeStack[n].auxiliary
                    THEN [m2 EXCEPT !.scopeStack[n].types = @ \cup {name}]
                  ELSE raiseAt(m2, "TypeError")
        ELSE m1
  IN types(superDeclareName)

\* The constructor: the base engine's constructor calls this.enterScope
\* with SCOPE_TOP; importsStack is declared as [[]].
InitScopes ==
  /\ parser = enterScope([scopeStack |-> <<>>, importsStack |-> <<{}>>,
                          raised |-> "", log |-> <<>>, lastTokStart |-> 0],
                         {"SCOPE_TOP"})
  /\ stack = <<>>
  /\ exc = NoError
  /\ last = [op |-> "none"]
  /\ ops = 0
  /\ pma = NoPMA
  /\ parsed = NotParsed

\* Scopes opened in the code running now may be closed by it, those of its
\* callers may not.
ScopeFloor == IF stack = <<>> THEN 1 ELSE stack[Len(stack)].depth

\* A function, an arrow function or a block begins: this.enterScope.
EnterScope ==
  /\ ok(parser)
  /\ Len(parser.scopeStack) <= MaxScopes
  /\ \E flags \in {{"SCOPE_FUNCTION", "SCOPE_ARROW"}, {}} :
       parser' = enterScope(parser, flags)
  /\ last' = [op |-> "enterScope"]
  /\ UNCHANGED <<stack, exc, ops, pma, parsed>>

\* It ends: this.exitScope.
ExitScope ==
  /\ ok(parser)
  /\ Len(parser.scopeStack) > ScopeFloor
  /\ parser.scopeStack[Len(parser.scopeStack)].by = "this"
  /\ parser' = exitScope(parser)
  /\ last' = [op |-> "exitScope"]
  /\ UNCHANGED <<stack, exc, ops, pma, parsed>>

\* tsParseModuleOrNamespaceDeclaration reaches the body of a namespace:
\* super.enterScope(TS_SCOPE_TS_MODULE), then in tsParseModuleBlock
\* super.enterScope(TS_SCOPE_OTHER).
EnterModuleBlock ==
  /\ ok(parser)
  /\ Len(parser.scopeStack) + 1 <= MaxScopes
  /\ parser' = superEnterScope(superEnterScope(parser, {"TS_SCOPE_TS_MODULE"}),
                               {"TS_SCOPE_OTHER"})
  /\ last' = [op |-> "tsParseModuleBlock"]
  /\ UNCHANGED <<stack, exc, ops, pma, parsed>>

\* The `}` of the namespace: super.exitScope() of tsParseModuleBlock, then
\* that of tsParseModuleOrNamespaceDeclaration.
ExitModuleBlock ==
  /\ ok(parser)
  /\ Len(parser.scopeStack) > ScopeFloor + 1
  /\ parser.scopeStack[Len(parser.scopeStack)].flags = {"TS_SCOPE_OTHER"}
  /\ parser' = superExitScope(superExitScope(parser))
  /\ last' = [op |-> "exitModuleBlock"]
  /\ UNCHANGED <<stack, exc, ops, pma, parsed>>

\* A declaration binds its name: `let`, a type alias or an interface.
DeclareName ==
  /\ ok(parser)
  /\ \E bindingType \in {acornScope.BIND_LEXICAL, acornScope.BIND_TS_TYPE,
                         acornScope.BIND_TS_INTERFACE} :
       /\ parser' = declareName(parser, "A", bindingType, 0)
       /\ last' = [op |-> "declareName", name |-> "A", bindingType |-> bindingType,
                   scope |-> parser.scopeStack[Len(parser.scopeStack)]]
  /\ UNCHANGED <<stack, exc, ops, pma, parsed>>

\* tryParse(fn) is called.
TryParseScopes ==
  /\ ok(parser)
  /\ Len(stack) < MaxDepth
  /\ stack' = Append(stack, [kind |-> "tryParse", depth |-> Len(parser.scopeStack)])
  /\ last' = [op |-> "tryParse", how |-> "call"]
  /\ UNCHANGED <<parser, exc, ops, pma, parsed>>

\* fn meets an unexpected token, or calls abort.
ThrowInScopes ==
  /\ ok(parser)
  /\ \E kind \in {"SyntaxError", "abort"} : parser' = raiseAt(parser, kind)
  /\ last' = [op |-> "throw"]
  /\ UNCHANGED <<stack, exc, ops, pma, parsed>>

\* fn returns, having closed what it opened, or its exception reaches the
\* catch block of tryParse: setLookaheadState(oldState) puts the token
\* state back, of which this specification holds none; a SyntaxError and
\* the abort signal become the result.
TryParseEnds ==
  /\ stack # <<>>
  /\ LET frame == stack[Len(stack)] IN
       /\ ok(parser) => Len(parser.scopeStack) = frame.depth
       /\ parser.raised \in {"", "SyntaxError", "abort"}
       /\ parser' = [parser EXCEPT !.raised = "", !.log = <<>>]
       /\ last' = [op |-> "tryParse", how |-> IF ok(parser) THEN "return" ELSE "catch",
                   thrown |-> parser.raised = "SyntaxError",
                   aborted |-> parser.raised = "abort",
                   depth |-> frame.depth]
  /\ stack' = SubSeq(stack, 1, Len(stack) - 1)
  /\ UNCHANGED <<exc, ops, pma, parsed>>

NextScopes ==
  \/ EnterScope
  \/ ExitScope
  \/ EnterModuleBlock
  \/ ExitModuleBlock
  \/ DeclareName
  \/ TryParseScopes
  \/ ThrowInScopes
  \/ TryParseEnds

SpecScopes == InitScopes /\ [][NextScopes]_vars

\* ----------------------------------------------------------------- lookahead
\* createLookaheadState: the value is dropped and the context stack is a
\* new array of one entry, the current context.
createLookaheadState(m) ==
  contextAssignNew([m EXCEPT !.value = NoValue], <<curContext(m)>>)

\* A lookahead that leaves isLookahead alone.
lookaheadCommitting(m, given, number) ==
  LET RECURSIVE tokens(_, _)
      oldState == getCurLookaheadState(m)
      tokens(x, i) == IF i = 0 \/ ~ok(x) THEN x ELSE tokens(nextToken(x), i - 1)
      finish(x) ==
        IF ~ok(x) THEN [m |-> x, returned |-> FALSE, curState |-> NullState,
                        context |-> <<>>]
        ELSE [m |-> [setLookaheadState(x, oldState) EXCEPT !.heap = m.heap],
              returned |-> TRUE, curState |-> getCurLookaheadState(x),
              context |-> contextOf(x)]
  IN finish(tokens(createLookaheadState(m), IF given THEN number ELSE 1))

\* lookahead(number), number given or not: the tokens are read with
\* nextToken under isLookahead, then the state saved at entry is put back
\* and the state reached is returned (context: the entries of its context
\* array, which is dropped). An error of the tokenizer leaves the function
\* where it was thrown.
lookahead(m, given, number) ==
  LET RECURSIVE tokens(_, _)
      oldState == getCurLookaheadState(m)
      tokens(x, i) == IF i = 0 \/ ~ok(x) THEN x ELSE tokens(nextToken(x), i - 1)
      finish(x) ==
        IF ~ok(x) THEN [m |-> x, returned |-> FALSE, curState |-> NullState,
                        context |-> <<>>]
        ELSE [m |-> [setLookaheadState([x EXCEPT !.isLookahead = FALSE], oldState)
                       EXCEPT !.heap = m.heap],
              returned |-> TRUE, curState |-> getCurLookaheadState(x),
              context |-> contextOf(x)]
  IN finish(tokens([createLookaheadState(m) EXCEPT !.isLookahead = TRUE],
                   IF given THEN number ELSE 1))

\* A parsing function peeks: lookahead() or lookahead(number).
Lookahead ==
  /\ exc = NoError
  /\ Started(parser)
  /\ \E given \in BOOLEAN, number \in 1 .. MaxPeek :
       /\ given \/ number = 1
       /\ LET finish(r) ==
                Commit([r.m EXCEPT !.raised = ""], stack,
                       IF r.returned THEN NoError ELSE ThrownBy(r.m),
                       [op |-> "lookahead",
                        how |-> IF r.returned THEN "return" ELSE "throw",
                        given |-> given, number |-> number,
                        curState |-> r.curState, context |-> r.context,
                        entry |-> View(parser)])
          IN finish(lookahead(parser, given, number))
  /\ UNCHANGED <<ops, pma, parsed>>

\* Tokens are consumed and peeked at, inside a tryParse or outside one.
NextLookahead ==
  \/ Advance
  \/ Lookahead
  \/ BeginTryParse
  \/ Return("node")
  \/ Unwind

\* The inputs peeked at: names, parentheses (contexts), the slash (a
\* regular expression or a division, by exprAllowed) and line breaks.
InitLookahead ==
  /\ \E input \in SeqsUpTo({"a", "(", ")", "/", "\n"}, MaxTokLen) :
       parser = NewParser(input)
  /\ stack = <<>>
  /\ exc = NoError
  /\ last = Idle
  /\ ops = 0
  /\ pma = NoPMA
  /\ parsed = NotParsed

SpecLookahead == InitLookahead /\ [][NextLookahead]_vars


\* ------------------------------------------------ `{` in a type position
\* The tokens that follow a `{` met by tsParseNonArrayType. `+` and `-`
\* are both of type plusMin; `readonly` is a contextual keyword, of an
\* identifier token type; `in` is the keyword token _in.
ObjectTypeTokens == {"+", "-", "readonly", "[", "a", "in"}

\* The current token: position 0 is the `{` itself.
typeAt(m) ==
  IF m.pos = 0 THEN "{"
  ELSE IF m.pos <= Len(m.tokens) THEN m.tokens[m.pos] ELSE "eof"

\* next() over the tokens; at the end of the input the token stays eof.
nextAt(m) ==
  IF m.pos > Len(m.tokens) THEN m
  ELSE [m EXCEPT !.lastTokStart = m.pos, !.pos = m.pos + 1]

plusMin(m) == typeAt(m) \in {"+", "-"}

\* tokenIsIdentifier(this.type): names and contextual keywords.
tsIsIdentifierAt(m) == typeAt(m) \in {"a", "readonly"}

\* A variant that goes on to `readonly`? `[` identifier `in` after the
\* sign.
tsIsStartOfMappedTypeSignOptional(m0) ==
  LET m1 == nextAt(m0)
      m2 == IF plusMin(m1) THEN nextAt(m1) ELSE m1
      m3 == IF typeAt(m2) = "readonly" THEN nextAt(m2) ELSE m2
      m4 == nextAt(m3)
      m5 == nextAt(m4)
  IN IF typeAt(m3) # "[" THEN [m |-> m3, res |-> FALSE]
     ELSE IF ~tsIsIdentifierAt(m4) THEN [m |-> m4, res |-> FALSE]
     ELSE [m |-> m5, res |-> typeAt(m5) = "in"]

tsIsStartOfMappedType(m0) ==
  LET m1 == nextAt(m0)
      \* this.eat(tt.plusMin) succeeded
      m2 == nextAt(m1)
      \* without a sign: an optional `readonly`
      m3 == IF typeAt(m1) = "readonly" THEN nextAt(m1) ELSE m1
      m4 == nextAt(m3)
      m5 == nextAt(m4)
  IN IF plusMin(m1) THEN [m |-> m2, res |-> typeAt(m2) = "readonly"]
     ELSE IF typeAt(m3) # "[" THEN [m |-> m3, res |-> FALSE]
     ELSE IF ~tsIsIdentifierAt(m4) THEN [m |-> m4, res |-> FALSE]
     ELSE [m |-> m5, res |-> typeAt(m5) = "in"]

\* tsLookAhead(f) over the tokens: the position is put back.
tsLookAheadAt(m, r) ==
  [m |-> [r.m EXCEPT !.pos = m.pos, !.lastTokStart = m.lastTokStart],
   res |-> r.res]

\* expect(type): the token is consumed, or unexpected() raises.
expectAt(m, type) ==
  IF ~ok(m) THEN m
  ELSE IF typeAt(m) = type THEN nextAt(m)
  ELSE raise(m, m.pos, <<"Unexpected token">>)

\* tsParseMappedType up to the `in` of its type parameter: `{`, a sign
\* followed by `readonly` or `readonly` alone, `[`, the parameter's name
\* (parseIdent), `in`.
tsParseMappedTypeHead(m0) ==
  LET m1 == expectAt(m0, "{")
      m2 == IF plusMin(m1) THEN expectAt(nextAt(m1), "readonly")
            ELSE IF typeAt(m1) = "readonly" THEN nextAt(m1)
            ELSE m1
      m3 == expectAt(m2, "[")
      m4 == IF ~ok(m3) THEN m3
            ELSE IF tsIsIdentifierAt(m3) THEN nextAt(m3)
            ELSE raise(m3, m3.pos, <<"Unexpected token">>)
  IN expectAt(m4, "in")

InitObjectType ==
  /\ \E tokens \in SeqsUpTo(ObjectTypeTokens, MaxHead) :
       parser = [tokens |-> tokens, pos |-> 0, lastTokStart |-> 0,
                 raised |-> "", log |-> <<>>]
  /\ stack = <<>>
  /\ exc = NoError
  /\ last = Idle
  /\ ops = 0
  /\ pma = NoPMA
  /\ parsed = NotParsed

\* tsParseNonArrayType at `{`: the mapped-type test under tsLookAhead,
\* then tsParseMappedType or tsParseTypeLiteral.
ParseObjectType ==
  /\ ~parsed.done
  /\ LET finish(peek) ==
           LET head == IF peek.res THEN tsParseMappedTypeHead(peek.m)
                       ELSE peek.m
           IN /\ parser' = peek.m
              /\ parsed' = [done |-> TRUE, of |-> "tsParseNonArrayType",
                            answer |-> peek.res,
                            parsedAs |-> IF peek.res THEN "tsParseMappedType"
                                   ELSE "tsParseTypeLiteral",
                            raised |-> head.raised, log |-> head.log,
                            endPos |-> head.pos]
     IN finish(tsLookAheadAt(parser, tsIsStartOfMappedType(parser)))
  /\ UNCHANGED <<stack, exc, last, ops, pma>>

NextObjectType == ParseObjectType

SpecObjectType == InitObjectType /\ [][NextObjectType]_vars


\* ------------------------------------------------------- the type context
\* The calls through which tsParseType is reached, by caller and callee.
\* how: "plain" is a call in the caller's body, "tsInType" a call made in
\* the callback the caller hands to tsInType, "ifInType" and "ifNotInType"
\* the two arms of `this.inType ? ... : ...`. Callers that only pass the
\* call on are folded into their own caller.
Edge(from, to, how) == [from |-> from, to |-> to, how |-> how]

CallEdges ==
  { Edge("parseStatement", "tsParseTypeAliasDeclaration", "plain"),
    Edge("parseStatement", "tsParseTypeAnnotation", "plain"),
    Edge("parseStatement", "parseExpression", "plain"),
    Edge("parseExpression", "tsNextThenParseType", "plain"),
    Edge("parseExpression", "tsParseTypeArguments", "plain"),
    Edge("parseExpression", "tsParseTypeAnnotation", "plain"),
    Edge("parseExpression", "parseTemplate", "plain"),
    Edge("tsParseTypeAnnotation", "tsParseType", "tsInType"),
    Edge("tsNextThenParseType", "tsDoThenParseType", "plain"),
    Edge("tsExpectThenParseType", "tsDoThenParseType", "plain"),
    Edge("tsDoThenParseType", "tsParseType", "tsInType"),
    Edge("tsParseTypeArguments", "tsParseType", "tsInType"),
    Edge("tsParseTypeAliasDeclaration", "tsParseType", "tsInType"),
    Edge("parseTemplate", "tsParseType", "ifInType"),
    Edge("parseTemplate", "parseExpression", "ifNotInType"),
    Edge("tsParseType", "tsParseNonConditionalType", "plain"),
    Edge("tsParseType", "tsParseType", "plain"),
    Edge("tsParseNonConditionalType", "tsParseTypeOperatorOrHigher", "plain"),
    Edge("tsParseTypeOperatorOrHigher", "tsParseConstraintForInferType", "plain"),
    Edge("tsParseTypeOperatorOrHigher", "tsParseArrayTypeOrHigher", "plain"),
    Edge("tsParseConstraintForInferType", "tsParseType", "plain"),
    Edge("tsParseArrayTypeOrHigher", "tsParseNonArrayType", "plain"),
    Edge("tsParseArrayTypeOrHigher", "tsParseType", "plain"),
    Edge("tsParseNonArrayType", "tsParseMappedType", "plain"),
    Edge("tsParseNonArrayType", "tsParseTupleElementType", "plain"),
    Edge("tsParseNonArrayType", "tsParseParenthesizedType", "plain"),
    Edge("tsParseNonArrayType", "parseTemplate", "plain"),
    Edge("tsParseNonArrayType", "tsParseTypeArguments", "plain"),
    Edge("tsParseNonArrayType", "tsParseTypeAnnotation", "plain"),
    Edge("tsParseNonArrayType", "parseExpression", "plain"),
    Edge("tsParseMappedType", "tsExpectThenParseType", "plain"),
    Edge("tsParseMappedType", "tsParseType", "plain"),
    Edge("tsParseTupleElementType", "tsParseType", "plain"),
    Edge("tsParseParenthesizedType", "tsParseType", "plain") }

\* `const oldInType = this.inType` is the frame's; then
\* `this.inType = true` without the assignment.
tsInTypeBeginUnset(m) == m

\* tsInType before cb: `this.inType = true`.
tsInTypeBegin(m) == [m EXCEPT !.inType = TRUE]

\* tsInType, `finally`: `this.inType = oldInType`.
tsInTypeFinally(m, oldInType) == [m EXCEPT !.inType = oldInType]

\* The function that is running: parseStatement when nothing was called.
Running == IF Len(stack) = 0 THEN "parseStatement" ELSE stack[Len(stack)].fn

\* assert(this.inType) at the start of tsParseType.
AssertFail == [kind |-> "Error", at |-> 0, target |-> 0, node |-> "null"]

InitTypeContext ==
  /\ parser = [inType |-> FALSE]
  /\ stack = <<>>
  /\ exc = NoError
  /\ last = [op |-> "none"]
  /\ ops = 0
  /\ pma = NoPMA
  /\ parsed = NotParsed

\* The running function makes one of its calls; a call made under
\* tsInType sets inType first and keeps the old value for its `finally`.
\* tsParseType starts with its assertion.
Call ==
  /\ exc = NoError
  /\ Len(stack) < MaxCalls
  /\ \E e \in CallEdges :
       /\ e.from = Running
       /\ e.how = "ifInType" => parser.inType
       /\ e.how = "ifNotInType" => ~parser.inType
       /\ LET m == IF e.how = "tsInType" THEN tsInTypeBegin(parser) ELSE parser
          IN /\ parser' = m
             /\ stack' = Append(stack, [fn |-> e.to, how |-> e.how,
                                        oldInType |-> parser.inType])
             /\ exc' = IF e.to = "tsParseType" /\ ~m.inType THEN AssertFail
                       ELSE NoError
             /\ last' = [op |-> "call", fn |-> e.to, from |-> e.from]
  /\ UNCHANGED <<ops, pma, parsed>>

\* The running function returns; a call made under tsInType passes
\* through `finally`.
ReturnFromCall ==
  /\ exc = NoError
  /\ Len(stack) > 0
  /\ LET f == stack[Len(stack)]
     IN /\ parser' = IF f.how = "tsInType" THEN tsInTypeFinally(parser, f.oldInType)
                     ELSE parser
        /\ last' = [op |-> "return", fn |-> f.fn, how |-> f.how,
                    oldInType |-> f.oldInType]
  /\ stack' = SubSeq(stack, 1, Len(stack) - 1)
  /\ UNCHANGED <<exc, ops, pma, parsed>>

\* The running function raises (unexpected(), raise).
ThrowInCall ==
  /\ exc = NoError
  /\ Len(stack) > 0
  /\ exc' = [kind |-> "SyntaxError", at |-> 0, target |-> 0, node |-> "null"]
  /\ last' = [op |-> "throw", fn |-> Running]
  /\ UNCHANGED <<parser, stack, ops, pma, parsed>>

\* The exception leaves the running function; a call made under tsInType
\* passes through `finally`.
UnwindCall ==
  /\ exc # NoError
  /\ Len(stack) > 0
  /\ LET f == stack[Len(stack)]
     IN /\ parser' = IF f.how = "tsInType" THEN tsInTypeFinally(parser, f.oldInType)
                     ELSE parser
        /\ last' = [op |-> "unwind", fn |-> f.fn, how |-> f.how,
                    oldInType |-> f.oldInType]
  /\ stack' = SubSeq(stack, 1, Len(stack) - 1)
  /\ UNCHANGED <<exc, ops, pma, parsed>>

NextTypeContext == Call \/ ReturnFromCall \/ ThrowInCall \/ UnwindCall

SpecTypeContext == InitTypeContext /\ [][NextTypeContext]_vars

\* ------------------------------------------- properties of the type context
\* C11: while inType is set, a `<` or `>` at the start of the token read
\* next is a one-character relational punctuator, whatever exprAllowed and
\* the lexical context on top are: it is neither a JSX tag start or tag end
\* nor merged with the characters after it.
C11_AngleBracketsInType ==
  (parser.inType /\ exc = NoError) =>
    LET n == next(parser)
        code == charAt(n, n.start)
    IN (n.start < Len(n.input) /\ code \in {"<", ">"}) =>
         /\ n.raised = ""
         /\ n.type = "relational"
         /\ n.value = <<code>>
         /\ n.end = n.start + 1

\* C11 happens: inside a JSX opening tag, with inType set, a `>` was read
\* as a relational token of one character although `>` or `=` follows it.
C11_Witness ==
  /\ parser.inType
  /\ curContext(parser) = "tc_oTag"
  /\ parser.type = "relational"
  /\ parser.value = <<">">>
  /\ parser.end = parser.start + 1
  /\ charAt(parser, parser.end) \in {">", "="}


\* One class member: its modifiers, written on one line or one per line,
\* then its name, a parenthesis or a brace, on the first or a later line.
ModifierInputs ==
  LET RECURSIVE join(_, _)
      join(words, sep) ==
        IF Len(words) = 0 THEN <<>>
        ELSE <<words[1], sep>> \o join(Tail(words), sep)
  IN {lead \o join(words, sep) \o tail :
        lead \in {<<>>, <<"\n">>},
        words \in SeqsUpTo(ModifierWords, MaxModifiers),
        sep \in {" ", "\n"},
        tail \in {<<"a">>, <<"(">>, <<"{">>}}

\* The parser stands at the first token of the member.
InitModifiers ==
  /\ \E input \in ModifierInputs : parser = nextToken(NewParser(input))
  /\ stack = <<>>
  /\ exc = NoError
  /\ last = Idle
  /\ ops = 0
  /\ pma = NoPMA
  /\ parsed = NotParsed

\* parseClassElement up to the member's name: the node is started and the
\* modifiers are parsed onto it.
parseClassElement ==
  /\ ~parsed.done
  /\ LET finish(r) ==
           /\ parser' = [r.m EXCEPT !.raised = "", !.log = <<>>]
           /\ parsed' = [done |-> TRUE, raised |-> r.m.raised, node |-> r.modified,
                         log |-> r.m.log]
     IN finish(tsParseModifiers(parser,
                 [type |-> "undefined", start |-> parser.start],
                 {"declare", "private", "public", "protected", "accessor",
                  "override", "abstract", "readonly", "static"},
                 {"in", "out"}, TRUE,
                 <<"InvalidModifierOnTypeParameterPositions">>))
  /\ UNCHANGED <<stack, exc, last, ops, pma>>

SpecModifiers == InitModifiers /\ [][parseClassElement]_vars


\* ------------------------------------------------- properties of modifiers
\* The modifier words of the input, in the order written.
Written ==
  LET isWord(c) == c \in ModifierWords
  IN SelectSeq(parser.input, isWord)

\* The member's modifiers are on one line with its name after them, so that
\* every word written is read as a modifier.
AllModifiers ==
  /\ parsed.done
  /\ Len(parser.input) > 0
  /\ parser.input[Len(parser.input)] = "a"
  /\ \A i \in 2 .. Len(parser.input) : parser.input[i] # "\n"

\* <<earlier, later>>: `later` must not be written after `earlier`.
OrderPairs ==
  {<<"readonly", "static">>, <<"override", "static">>, <<"readonly", "override">>,
   <<"override", "abstract">>}
    \cup {<<e, acc>> : e \in {"override", "static", "readonly"},
                      acc \in {"public", "private"}}

\* The first position whose modifier is written after one it must precede;
\* 0 if there is none.
FirstOutOfOrder ==
  LET bad == {k \in 1 .. Len(Written) :
                \E i \in 1 .. k - 1 : <<Written[i], Written[k]>> \in OrderPairs}
  IN IF bad = {} THEN 0 ELSE CHOOSE k \in bad : \A j \in bad : k <= j

\* Modifiers with an ordering rule, none written twice, one accessibility
\* keyword at most, and not static together with abstract.
OrderedKinds ==
  /\ \A i \in 1 .. Len(Written) :
       Written[i] \in {"public", "private", "static", "readonly", "override", "abstract"}
  /\ \A i, j \in 1 .. Len(Written) :
       i # j => /\ Written[i] # Written[j]
                /\ {Written[i], Written[j]} # {"public", "private"}
                /\ {Written[i], Written[j]} # {"static", "abstract"}

C13_AbstractOverrideRaises ==
  (AllModifiers /\ Written = <<"abstract", "override">>) =>
    /\ Len(parsed.log) = 1
    /\ parsed.log[1].message[1] = "InvalidModifiersOrder"

\* C13, amended: `override abstract` raises the ordering error of abstract
\* and override, raised for `abstract`, the token consumed last; `abstract
\* override` raises nothing.
C13_OverrideAbstractRaises ==
  /\ (AllModifiers /\ Written = <<"override", "abstract">>) =>
       /\ Len(parsed.log) = 1
       /\ parsed.log[1].message = <<"InvalidModifiersOrder", "abstract", "override">>
       /\ parser.input[parsed.log[1].lastTokStart + 1] = "abstract"
  /\ (AllModifiers /\ Written = <<"abstract", "override">>) =>
       parsed.log = <<>> /\ parsed.raised = ""

\* C13 happens: `override abstract a` was parsed and raised.
C13_Witness ==
  /\ AllModifiers
  /\ Written = <<"override", "abstract">>
  /\ parsed.raised = "SyntaxError"

\* C14: every violation is reported at the offset of the violating
\* modifier, the token consumed last when it is raised.
C14_ReportedAtModifier ==
  parsed.done => \A i \in 1 .. Len(parsed.log) :
                   parsed.log[i].pos = parsed.log[i].lastTokStart

\* The pairs that exclude each other.
IncompatiblePairs ==
  {{"declare", "override"}, {"static", "abstract"}, {"accessor", "readonly"},
   {"accessor", "static"}, {"accessor", "override"}}

\* C15: the two modifiers of a mutually exclusive pair, in either order,
\* raise the incompatibility error.
C15_IncompatibleEitherOrder ==
  (AllModifiers /\ Len(Written) = 2 /\ {Written[1], Written[2]} \in IncompatiblePairs) =>
    /\ Len(parsed.log) = 1
    /\ parsed.log[1].message[1] = "IncompatibleModifiers"

\* C16: after a violation is reported the parse goes on: nothing is thrown
\* and the parser stands at the member's name, all modifiers read.
C16_ViolationDoesNotAbort ==
  (AllModifiers /\ parsed.log # <<>>) =>
    /\ parsed.raised = ""
    /\ parser.type = "name"
    /\ parser.value = <<"a">>

\* C17: a diagnostic issued through raise, as all of tsParseModifiers are,
\* reaches the base engine as raise.
C17_RaiseReachesRaise ==
  parsed.done => \A i \in 1 .. Len(parsed.log) : parsed.log[i].via = "raise"


\* ---------------------------------------- properties of variable statements
\* C18: in an ambient context one declarator with an initializer is
\* accepted without error exactly when the binding is const, has no type
\* annotation and the initializer is a literal or an enum-like constant.
C18_AmbientInitializer ==
  (/\ parsed.done
   /\ parser.statement.declare \/ parser.isAmbientContext
   /\ Len(parser.statement.declarations) = 1
   /\ parser.statement.declarations[1].init # "none") =>
    (parsed.raised = ""
       <=> /\ parser.statement.kind = "const"
           /\ ~parser.statement.declarations[1].typeAnnotation
           /\ parser.statement.declarations[1].init
                \in {"string", "number", "boolean", "bigint", "template", "member",
                     "chain", "computedTemplate"})


\* ------------------------------------------------ properties of tuple types
\* The kind of element i as written.
IsRest(i) == parser.elements[i].rest

IsOptional(i) == parser.elements[i].optional /\ ~parser.elements[i].rest

IsRequired(i) == ~parser.elements[i].optional /\ ~parser.elements[i].rest

\* All elements unlabeled, or all labeled with a plain identifier.
UniformLabels ==
  \/ \A i \in 1 .. Len(parser.elements) : ~parser.elements[i].labeled
  \/ \A i \in 1 .. Len(parser.elements) :
       parser.elements[i].labeled /\ parser.elements[i].form = "ref"

\* C19: a required element after an optional (`?`) element raises the
\* structural error; a tuple whose optional elements are all trailing
\* parses without error.
C19_RequiredAfterOptional ==
  (parsed.done /\ UniformLabels) =>
    LET n == Len(parser.elements)
        bad == \E i, j \in 1 .. n : i < j /\ IsOptional(i) /\ IsRequired(j)
        trailing == \A i, j \in 1 .. n : (i < j /\ IsOptional(i)) => IsOptional(j)
    IN /\ bad => /\ parsed.raised = "SyntaxError"
                 /\ parsed.log[1].message = <<"OptionalTypeBeforeRequired">>
       /\ trailing => parsed.raised = "" /\ parsed.log = <<>>

\* C19 happens: `[a, b?, c]` was parsed and raised, three elements, the
\* required one last.
C19_Witness ==
  /\ parsed.done
  /\ UniformLabels
  /\ Len(parser.elements) = 3
  /\ IsRequired(1) /\ IsOptional(2) /\ IsRequired(3)
  /\ parsed.raised = "SyntaxError"

\* C20 as claimed: a required element after a rest element raises the
\* error a required element after an optional one raises.
C20_RestCountsAsOptional ==
  (/\ parsed.done /\ UniformLabels
   /\ \E i, j \in 1 .. Len(parser.elements) : i < j /\ IsRest(i) /\ IsRequired(j)) =>
    /\ parsed.raised = "SyntaxError"
    /\ parsed.log[1].message = <<"OptionalTypeBeforeRequired">>

\* C20, amended: a rest element is exempt from the check and does not count
\* as an optional element: the ordering error is raised exactly when a
\* required element follows an optional (`?` or optional named) element, so
\* a required element after a rest element alone raises nothing.
C20_RestIsExempt ==
  (parsed.done /\ UniformLabels) =>
    (parsed.raised = "SyntaxError"
       <=> \E i, j \in 1 .. Len(parser.elements) :
             i < j /\ IsOptional(i) /\ IsRequired(j))

\* C20 happens: `[...a, b]` was parsed without error.
C20_Witness ==
  /\ parsed.done
  /\ Len(parser.elements) = 2
  /\ IsRest(1) /\ ~parser.elements[1].optional /\ IsRequired(2)
  /\ UniformLabels
  /\ parsed.raised = ""


\* ------------------------------------- properties of type-parameter lists
\* The list as written ends with a comma right before its `>`: the index
\* of the first `>` and whether the token before it is a comma.
ClosingIndex ==
  CHOOSE i \in 1 .. Len(parser.tokens) + 1 :
    /\ i <= Len(parser.tokens) => parser.tokens[i] = ">"
    /\ \A j \in 1 .. i - 1 : parser.tokens[j] # ">"

EndsWithComma == ClosingIndex > 1 /\ parser.tokens[ClosingIndex - 1] = ","

\* C21: a list of type parameters and a list of type arguments that was
\* parsed has the offset of its trailing comma recorded on its node when
\* a comma precedes `>`, and nothing recorded when none does.
C21_TrailingCommaRecorded ==
  (parsed.done /\ parsed.raised = "") =>
    IF EndsWithComma
      THEN parsed.extra = [trailingComma |-> ClosingIndex - 1]
      ELSE parsed.extra = <<>>


\* ---------------------------------------------------- properties of scopes
\* C22: every scope of the scope stack has its five auxiliary name lists,
\* and the import-name frames number one more than the open scopes of
\* namespace shape.
C22_ScopesInitialised ==
  /\ \A i \in 1 .. Len(parser.scopeStack) :
       parser.scopeStack[i].auxiliary = AuxiliaryLists
  /\ Len(parser.importsStack) =
       1 + Cardinality({i \in 1 .. Len(parser.scopeStack) :
                          parser.scopeStack[i].flags = {"TS_SCOPE_TS_MODULE"}})

\* C23: declareName of a type alias or an interface raises a redeclaration
\* error if the name is in the type names of the scope, and adds it to
\* them otherwise.
C23_TypeNameDeclared ==
  (/\ last.op = "declareName"
   /\ last.bindingType \in {acornScope.BIND_TS_TYPE, acornScope.BIND_TS_INTERFACE}
   /\ "types" \in last.scope.auxiliary) =>
    IF last.name \in last.scope.types
      THEN parser.raised = "SyntaxError"
      ELSE /\ ok(parser)
           /\ last.name \in parser.scopeStack[Len(parser.scopeStack)].types

\* C28: when tryParse has returned with thrown or aborted set, the scope
\* stack is as deep as it was when tryParse was entered.
C28_ScopeDepthRestored ==
  (last.op = "tryParse" /\ last.how = "catch") =>
    Len(parser.scopeStack) = last.depth


LookaheadReturned == last.op = "lookahead" /\ last.how = "return"

\* The token of a LookaheadState.
StateToken(state) ==
  [type |-> state.type, value |-> state.value, start |-> state.start, end |-> state.end]

C29_IsLookaheadFalse == exc = NoError => ~parser.isLookahead

\* C30: the token lookahead(n) returns is the token that is current after
\* n calls of next() from the same state.
C30_LookaheadIsNextN ==
  (LookaheadReturned /\ last.given) =>
    LET n == nextN(ParserAt(parser.input, last.entry), last.number)
    IN n.raised = "" /\ Token(n) = StateToken(last.curState)



\* ------------------------------------- properties of `{` in a type position
\* The i-th token after the `{`.
TokenAfterBrace(i) ==
  IF i <= Len(parser.tokens) THEN parser.tokens[i] ELSE "eof"

\* `readonly`? `[` identifier `in`, from the i-th token after the `{`.
MappedKeyFrom(i) ==
  LET k == IF TokenAfterBrace(i) = "readonly" THEN i + 1 ELSE i
  IN /\ TokenAfterBrace(k) = "["
     /\ TokenAfterBrace(k + 1) \in {"a", "readonly"}
     /\ TokenAfterBrace(k + 2) = "in"

SignAfterBrace == TokenAfterBrace(1) \in {"+", "-"}

\* C27 (as stated): after `{` the mapped-type test answers true exactly
\* when the tokens are an optional sign, an optional `readonly`, `[`, an
\* identifier and `in`; otherwise the `{` is parsed as a type literal.
C27_SignThenKey ==
  parsed.done =>
    /\ parsed.answer = MappedKeyFrom(IF SignAfterBrace THEN 2 ELSE 1)
    /\ parsed.parsedAs = IF parsed.answer THEN "tsParseMappedType"
                         ELSE "tsParseTypeLiteral"

\* C27 (amended): after `{` the mapped-type test answers true exactly
\* when a sign is directly followed by `readonly` (nothing after it is
\* looked at), or when, without a sign, the tokens are an optional
\* `readonly`, `[`, an identifier and `in`; the `{` is parsed as a mapped
\* type when the answer is true and as a type literal otherwise, and the
\* test leaves the parser at the `{`.
C27_SignNeedsReadonly ==
  parsed.done =>
    /\ parsed.answer = IF SignAfterBrace THEN TokenAfterBrace(2) = "readonly"
                       ELSE MappedKeyFrom(1)
    /\ parsed.parsedAs = IF parsed.answer THEN "tsParseMappedType"
                         ELSE "tsParseTypeLiteral"
    /\ parser.pos = 0

\* C27 witness: `{ + readonly [ a in` was tested and taken for a mapped
\* type, whose head was then parsed up to `in`.
C27_Witness ==
  /\ parsed.done
  /\ parsed.answer
  /\ SignAfterBrace
  /\ MappedKeyFrom(2)
  /\ parsed.raised = ""
  /\ parsed.endPos = 6



\* ---------------------------------------------- properties of the type context
\* A call made under tsInType has not yet been left.
InTsInType == \E i \in 1 .. Len(stack) : stack[i].how = "tsInType"

\* C26: tsParseType is only entered with inType true, so that its
\* assertion never fails; and when a callback of tsInType returns or
\* throws, inType is again what it was before tsInType was called (so
\* inType is true exactly while a callback of tsInType is running).
C26_OnlyInTypeContext ==
  /\ Running = "tsParseType" => parser.inType
  /\ exc.kind # "Error"
  /\ (last.op \in {"return", "unwind"} /\ last.how = "tsInType") =>
       parser.inType = last.oldInType
  /\ parser.inType = InTsInType

\* C26 witness: a tsParseType entered under tsInType from outside a type
\* was left by an exception, through the `finally` of tsInType, and
\* inType is false again.
C26_Witness ==
  /\ last.op = "unwind"
  /\ last.how = "tsInType"
  /\ last.fn = "tsParseType"
  /\ exc.kind = "SyntaxError"
  /\ ~parser.inType

====
